---- MODULE Spec2Model ----
(***************************************************************************)
(* Chad 2030 pipeline simulator: the calculation engine (runSimulation and *)
(* the duration, gate, capacity, fiscal and aggregation functions it       *)
(* calls), as a state machine whose inputs are control sets.               *)
(*                                                                         *)
(* Numbers.  The engine computes in IEEE doubles on decimal parameters.    *)
(* The model computes the same expressions in exact rational arithmetic:   *)
(* every quantity is an integer numerator over a fixed denominator that is *)
(* stated where the quantity is defined.  The numerators exceed 32 bits,   *)
(* so they are kept as little-endian sequences of limbs (Big operators).   *)
(***************************************************************************)
EXTENDS Integers, Sequences, FiniteSets, TLC

(***************************************************************************)
(* Arbitrary-precision naturals: <<l1, l2, ...>> is l1 + l2*B + l3*B^2 ..  *)
(* with 0 <= li < B and no leading zero limb; zero is << >>.               *)
(***************************************************************************)
LimbBase == 100 * 100

RECURSIVE BigTrim(_)
BigTrim(a) ==
  IF a = << >> THEN << >>
  ELSE IF a[Len(a)] = 0 THEN BigTrim(SubSeq(a, 1, Len(a) - 1))
  ELSE a

RECURSIVE BigOfInt(_)
BigOfInt(n) ==
  IF n = 0 THEN << >> ELSE <<n % LimbBase>> \o BigOfInt(n \div LimbBase)

RECURSIVE BigToInt(_)
BigToInt(a) ==
  IF a = << >> THEN 0 ELSE Head(a) + LimbBase * BigToInt(Tail(a))

RECURSIVE BigAddCarry(_, _, _)
BigAddCarry(a, b, carry) ==
  IF a = << >> /\ b = << >> THEN BigOfInt(carry)
  ELSE LET x == IF a = << >> THEN 0 ELSE Head(a)
           y == IF b = << >> THEN 0 ELSE Head(b)
           t == x + y + carry
       IN  <<t % LimbBase>> \o
           BigAddCarry(IF a = << >> THEN << >> ELSE Tail(a),
                       IF b = << >> THEN << >> ELSE Tail(b),
                       t \div LimbBase)

BigAdd(a, b) == BigAddCarry(a, b, 0)

RECURSIVE BigMulCarry(_, _, _)
BigMulCarry(a, k, carry) ==
  IF a = << >> THEN BigOfInt(carry)
  ELSE LET t == Head(a) * k + carry
       IN  <<t % LimbBase>> \o BigMulCarry(Tail(a), k, t \div LimbBase)

\* a * k for a factor 0 <= k; factors above 200000 are split into limbs
RECURSIVE BigMulSmall(_, _)
BigMulSmall(a, k) ==
  IF k = 0 \/ a = << >> THEN << >>
  ELSE IF k <= 200000 THEN BigMulCarry(a, k, 0)
  ELSE BigAdd(BigMulCarry(a, k % LimbBase, 0), <<0>> \o BigMulSmall(a, k \div LimbBase))

\* a * LimbBase^j
BigShift(a, j) == IF a = << >> THEN << >> ELSE [i \in 1..j |-> 0] \o a

\* -1, 0, 1 as a < b, a = b, a > b
RECURSIVE BigCmpFrom(_, _, _)
BigCmpFrom(a, b, i) ==
  IF i = 0 THEN 0
  ELSE IF a[i] < b[i] THEN -1
  ELSE IF a[i] > b[i] THEN 1
  ELSE BigCmpFrom(a, b, i - 1)

BigCmp(a, b) ==
  IF Len(a) < Len(b) THEN -1
  ELSE IF Len(a) > Len(b) THEN 1
  ELSE BigCmpFrom(a, b, Len(a))

BigLess(a, b) == BigCmp(a, b) < 0
BigLeq(a, b) == BigCmp(a, b) <= 0

RECURSIVE BigSubBorrow(_, _, _)
BigSubBorrow(a, b, borrow) ==
  IF a = << >> THEN << >>
  ELSE LET y == IF b = << >> THEN 0 ELSE Head(b)
           t == Head(a) - y - borrow
       IN  <<IF t < 0 THEN t + LimbBase ELSE t>> \o
           BigSubBorrow(Tail(a), IF b = << >> THEN << >> ELSE Tail(b),
                        IF t < 0 THEN 1 ELSE 0)

\* a - b for a >= b
BigSub(a, b) == BigTrim(BigSubBorrow(a, b, 0))

RECURSIVE BigDivFrom(_, _, _, _)
BigDivFrom(a, k, n, rem) ==
  IF n = 0 THEN << >>
  ELSE LET cur == rem * LimbBase + a[n]
       IN  BigDivFrom(a, k, n - 1, cur % k) \o <<cur \div k>>

\* floor(a / k) for a small divisor 1 <= k <= 200000
BigDivSmall(a, k) == BigTrim(BigDivFrom(a, k, Len(a), 0))

\* ceil(a / k)
BigCeilDivSmall(a, k) == BigDivSmall(BigAdd(a, BigOfInt(k - 1)), k)

\* TRUE.  Operator arguments and LET definitions are evaluated on first
\* use; Eager(v) in a guard evaluates v there, which keeps the chains of
\* pending evaluations short.
Eager(v) == v = v

RECURSIVE BigMulAll(_, _)
BigMulAll(a, ks) ==
  IF ks = << >> THEN a
  ELSE LET p == BigMulSmall(a, Head(ks))
       IN  CASE Eager(p) -> BigMulAll(p, Tail(ks))

RECURSIVE BigDivAll(_, _)
BigDivAll(a, ks) ==
  IF ks = << >> THEN a
  ELSE LET q == BigDivSmall(a, Head(ks))
       IN  CASE Eager(q) -> BigDivAll(q, Tail(ks))

RECURSIVE BigCeilDivAll(_, _)
BigCeilDivAll(a, ks) ==
  IF ks = << >> THEN a
  ELSE LET q == BigCeilDivSmall(a, Head(ks))
       IN  CASE Eager(q) -> BigCeilDivAll(q, Tail(ks))

\* Signed values: [neg |-> BOOLEAN, mag |-> Big], zero has neg = FALSE
SBigDiff(a, b) ==
  IF BigLeq(b, a) THEN [neg |-> FALSE, mag |-> BigSub(a, b)]
  ELSE [neg |-> TRUE, mag |-> BigSub(b, a)]

SBigOf(a) == [neg |-> FALSE, mag |-> a]

SBigLeq(x, y) ==
  IF x.neg /\ y.neg THEN BigLeq(y.mag, x.mag)
  ELSE IF x.neg THEN TRUE
  ELSE IF y.neg THEN FALSE
  ELSE BigLeq(x.mag, y.mag)

SBigMin(x, y) == IF SBigLeq(x, y) THEN x ELSE y

\* Math.round of the signed rational x / (product of dens)
BigRound(x, dens) ==
  LET den == BigMulAll(BigOfInt(1), dens)
      twice == BigMulSmall(x.mag, 2)
  IN  IF ~x.neg THEN BigToInt(BigDivAll(BigAdd(twice, den), <<2>> \o dens))
      ELSE IF BigLeq(twice, den) THEN 0
      ELSE 0 - BigToInt(BigCeilDivAll(BigSub(twice, den), <<2>> \o dens))

Max(a, b) == IF a >= b THEN a ELSE b
Min(a, b) == IF a <= b THEN a ELSE b

\* Math.round(n / d) = floor(n/d + 1/2) for small integers, d > 0
RoundDiv(n, d) == (2 * n + d) \div (2 * d)

(***************************************************************************)
(* Parameter dictionary (PARAMETERS).  Decimal literals are held as        *)
(* integers in the unit named on each line.                                *)
(***************************************************************************)
Modalities == {"GOV_LED", "PPP", "FULLY_PRIVATE"}
ModalityOrder == <<"GOV_LED", "PPP", "FULLY_PRIVATE">>
RiskLevels == {"LOW", "MED", "HIGH"}
OilPriceScenarios == {50, 55, 65, 67, 75}
SIMULATION_YEARS == <<2025, 2026, 2027, 2028, 2029, 2030>>
ACTIVE_STAGES == <<2, 3, 4, 5, 6>>
ACTIVE_GATES == <<2, 3, 4, 5, 6>>
MAX_PMU_ADD == 15
ADVISOR_FTE_EQUIV == 5

PARAMETERS == [
  init |-> [capexTotal |-> 20500, capexAvg |-> 76, startYear |-> 2025, endYear |-> 2030],
  \* baseDuration in tenths of a month
  stages |-> [s \in 2..6 |-> [baseDuration |->
                CASE s = 2 -> 45 [] s = 3 -> 65 [] s = 4 -> 120 [] s = 5 -> 80 [] s = 6 -> 20]],
  \* rates in hundredths
  gates |-> (2 :> [baseRate |-> 75, floor |-> 50, ceiling |-> 95] @@
             3 :> [baseRate |-> 70, floor |-> 45, ceiling |-> 92] @@
             4 :> [baseRate |-> 75, floor |-> 50, ceiling |-> 95] @@
             5 :> [baseRate |-> 80, floor |-> 55, ceiling |-> 95] @@
             6 :> [baseRate |-> 92, floor |-> 75, ceiling |-> 98]),
  \* durationMultipliers in 1/10000, passRateAdjustments in hundredths,
  \* cofinancingRate in tenths, contingentLiabilityRate in thousandths
  modalities |-> [
    GOV_LED |-> [
      durationMultipliers |-> (2 :> 11000 @@ 3 :> 12300 @@ 4 :> 13750 @@ 5 :> 10625 @@ 6 :> 12500),
      passRateAdjustments |-> (2 :> -3 @@ 3 :> -5 @@ 4 :> -5 @@ 5 :> -5 @@ 6 :> -4),
      cofinancingRate |-> 10,
      contingentLiabilityRate |-> 0],
    PPP |-> [
      durationMultipliers |-> (2 :> 10000 @@ 3 :> 10000 @@ 4 :> 10000 @@ 5 :> 10000 @@ 6 :> 10000),
      passRateAdjustments |-> (2 :> 3 @@ 3 :> 5 @@ 4 :> 5 @@ 5 :> 5 @@ 6 :> 1),
      cofinancingRate |-> 3,
      contingentLiabilityRate |-> 125],
    FULLY_PRIVATE |-> [
      durationMultipliers |-> (2 :> 9500 @@ 3 :> 9500 @@ 4 :> 8500 @@ 5 :> 9500 @@ 6 :> 9000),
      passRateAdjustments |-> (2 :> 0 @@ 3 :> 0 @@ 4 :> 3 @@ 5 :> 3 @@ 6 :> 1),
      cofinancingRate |-> 0,
      contingentLiabilityRate |-> 50]],
  \* in thousandths
  advisorDurationMod |-> (2 :> 667 @@ 3 :> 692 @@ 4 :> 750 @@ 5 :> 813 @@ 6 :> 750),
  \* in hundredths
  advisorLiftMod |-> (2 :> 10 @@ 3 :> 10 @@ 4 :> 10 @@ 5 :> 8 @@ 6 :> 3),
  pmuMaxDurationReduction |-> (2 :> 10 @@ 3 :> 12 @@ 4 :> 15 @@ 5 :> 10 @@ 6 :> 8),
  pmuMaxLiftMod |-> (2 :> 4 @@ 3 :> 6 @@ 4 :> 8 @@ 5 :> 6 @@ 6 :> 2),
  \* championDurationReduction in tenths, championLift in hundredths
  championDurationReduction |-> 7,
  championLift |-> 10,
  \* in hundredths
  riskDurationMod |-> [
    LOW |-> (2 :> 100 @@ 3 :> 100 @@ 4 :> 100 @@ 5 :> 100 @@ 6 :> 100),
    MED |-> (2 :> 105 @@ 3 :> 105 @@ 4 :> 110 @@ 5 :> 105 @@ 6 :> 105),
    HIGH |-> (2 :> 115 @@ 3 :> 115 @@ 4 :> 135 @@ 5 :> 115 @@ 6 :> 115)],
  riskPassPenalty |-> [
    LOW |-> (2 :> 0 @@ 3 :> 0 @@ 4 :> 0 @@ 5 :> 0 @@ 6 :> 0),
    MED |-> (2 :> -2 @@ 3 :> -2 @@ 4 :> -3 @@ 5 :> -2 @@ 6 :> -2),
    HIGH |-> (2 :> -5 @@ 3 :> -5 @@ 4 :> -8 @@ 5 :> -5 @@ 6 :> -5)],
  \* pmuBase in FTE, projectsPerFte in tenths, stage4Max in projects
  pmuBase |-> 10,
  projectsPerFte |-> 25,
  stage4Max |-> 13,
  \* in hundredths
  capacityThresholds |-> [green |-> 80, yellow |-> 100, red |-> 100],
  capacityPenalties |-> [durationYellow |-> 110, durationRed |-> 125,
                         passYellow |-> -2, passRed |-> -5],
  fiscal |-> [
    oilProd2025 |-> 136000,
    \* 1 + growth, in thousandths
    oilProdGrowth |-> (2025 :> 993 @@ 2026 :> 1120 @@ 2027 :> 1120 @@ 2028 :> 1120 @@
                       2029 :> 1120 @@ 2030 :> 1120),
    \* in hundredths
    govTakeRate |-> 55,
    daysPerYear |-> 365,
    \* USD cents per barrel
    oilPrices |-> (50 :> 5000 @@ 55 :> 5500 @@ 65 :> 6500 @@ 67 :> 6694 @@ 75 :> 7500),
    nonOilGdp2025 |-> 10748,
    \* 1 + growth, in 1/10000
    nonOilGrowth |-> (2025 :> 10420 @@ 2026 :> 10350 @@ 2027 :> 10375 @@ 2028 :> 10375 @@
                      2029 :> 10375 @@ 2030 :> 10375),
    \* in thousandths
    nonOilTaxRate |-> (2025 :> 89 @@ 2026 :> 95 @@ 2027 :> 100 @@ 2028 :> 103 @@
                       2029 :> 107 @@ 2030 :> 110),
    totalGdp2025 |-> 12250,
    cfafPerUsd |-> 581,
    \* in thousandths
    maxCofinSafe |-> 350,
    maxDeficit |-> -15,
    maxContingent |-> 12,
    debtCeiling |-> 330,
    debtWarning |-> 300,
    donorBaseline |-> (2025 :> 28 @@ 2026 :> 23 @@ 2027 :> 18 @@ 2028 :> 18 @@
                       2029 :> 18 @@ 2030 :> 18),
    wages |-> (2025 :> 65 @@ 2026 :> 63 @@ 2027 :> 62 @@ 2028 :> 61 @@
               2029 :> 60 @@ 2030 :> 60),
    interest |-> 15,
    transfers |-> 39,
    socialFloor |-> 300,
    contingent2025 |-> 6,
    debtGdp2025 |-> 280],
  bounds |-> [fidBaselineMin |-> 85, fidBaselineMax |-> 95,
              fidAdvMin |-> 130, fidAdvMax |-> 140,
              fidOptMin |-> 160, fidOptMax |-> 180,
              timeBaselineMin |-> 28, timeBaselineMax |-> 40,
              timeOptMin |-> 18, timeOptMax |-> 28,
              invMax |-> 20500],
  \* in hundredths
  fiscalThresholds |-> [green |-> 80, yellow |-> 100, red |-> 100]]

DEFAULT_CONTROLS == [
  advisor |-> FALSE, pmuAdd |-> 0, nChampion |-> 0, nActive |-> 50,
  pctGovLed |-> 40, pctPPP |-> 40, pctPrivate |-> 20,
  oilPrice |-> 65,
  \* donorRate in hundredths
  donorRate |-> 70,
  politicalRisk |-> "MED"]

ModalityWeight(controls, modality) ==
  CASE modality = "GOV_LED" -> controls.pctGovLed
    [] modality = "PPP" -> controls.pctPPP
    [] modality = "FULLY_PRIVATE" -> controls.pctPrivate

(***************************************************************************)
(* Capacity.  A load ratio is the pair [num, den] of the rational num/den. *)
(***************************************************************************)
\* in tenths of a project
calculateTotalCapacity(controls) ==
  (PARAMETERS.pmuBase + controls.pmuAdd
     + (IF controls.advisor THEN ADVISOR_FTE_EQUIV ELSE 0)) * PARAMETERS.projectsPerFte

\* Math.min(nActive / totalCapacity, 1.2)
EstimatedLoadRatio(controls) ==
  LET cap == calculateTotalCapacity(controls)
  IN  IF 10 * controls.nActive * 10 <= 12 * cap
      THEN [num |-> 10 * controls.nActive, den |-> cap]
      ELSE [num |-> 12, den |-> 10]

\* loadRatio <= t/100
LoadAtMost(loadRatio, t) == 100 * loadRatio.num <= t * loadRatio.den

getCapacityStatus(loadRatio) ==
  IF LoadAtMost(loadRatio, PARAMETERS.capacityThresholds.green) THEN "GREEN"
  ELSE IF LoadAtMost(loadRatio, PARAMETERS.capacityThresholds.yellow) THEN "YELLOW"
  ELSE "RED"

(***************************************************************************)
(* Gate pass rates, in units of 1/1500 (RateDen): hundredths times 15,     *)
(* so that pmuAdd / MAX_PMU_ADD * lift is the integer pmuAdd * lift.       *)
(***************************************************************************)
RateDen == 100 * MAX_PMU_ADD

\* in hundredths
getCapacityPassPenalty(loadRatio) ==
  IF LoadAtMost(loadRatio, PARAMETERS.capacityThresholds.green) THEN 0
  ELSE IF LoadAtMost(loadRatio, PARAMETERS.capacityThresholds.yellow)
       THEN PARAMETERS.capacityPenalties.passYellow
  ELSE PARAMETERS.capacityPenalties.passRed

\* Faulty variant: only the lower limit is applied.
clampFloorOnly(value, min, max) == Max(min, value)

clamp(value, min, max) == Max(min, Min(max, value))

\* context = [controls, modality, hasChampion, loadRatio]
calculateGatePassRate(gate, context) ==
  LET controls == context.controls
      gateConfig == PARAMETERS.gates[gate]
      passRate ==
          MAX_PMU_ADD * gateConfig.baseRate
        + MAX_PMU_ADD * PARAMETERS.modalities[context.modality].passRateAdjustments[gate]
        + (IF controls.advisor THEN MAX_PMU_ADD * PARAMETERS.advisorLiftMod[gate] ELSE 0)
        + controls.pmuAdd * PARAMETERS.pmuMaxLiftMod[gate]
        + (IF context.hasChampion /\ gate = 4
           THEN MAX_PMU_ADD * PARAMETERS.championLift ELSE 0)
        + MAX_PMU_ADD * getCapacityPassPenalty(context.loadRatio)
        + MAX_PMU_ADD * PARAMETERS.riskPassPenalty[controls.politicalRisk][gate]
  IN  clamp(passRate, MAX_PMU_ADD * gateConfig.floor, MAX_PMU_ADD * gateConfig.ceiling)

\* Big numerator over RateDen^5
calculateCumulativePassRate(context) ==
  BigMulAll(BigOfInt(1), [i \in 1..5 |-> calculateGatePassRate(ACTIVE_GATES[i], context)])

\* Big numerator over 100 * RateDen^5
RECURSIVE WeightedSum(_, _, _)
WeightedSum(controls, F(_), i) ==
  IF i > Len(ModalityOrder) THEN << >>
  ELSE BigAdd(BigMulSmall(F(ModalityOrder[i]), ModalityWeight(controls, ModalityOrder[i])),
              WeightedSum(controls, F, i + 1))

calculateWeightedCumulativePassRate(controls, loadRatio) ==
  LET Cum(m) == calculateCumulativePassRate(
                  [controls |-> controls, modality |-> m,
                   hasChampion |-> FALSE, loadRatio |-> loadRatio])
  IN  WeightedSum(controls, Cum, 1)

\* Big numerator over RateDen^5
calculateChampionedPassRate(controls, loadRatio) ==
  calculateCumulativePassRate(
    [controls |-> controls, modality |-> "PPP", hasChampion |-> TRUE,
     loadRatio |-> loadRatio])

CumRateDenFactors == <<100, RateDen, RateDen, RateDen, RateDen, RateDen>>

\* Math.round(nChampion * championedPassRate + (nActive - nChampion) * normalPassRate)
ExpectedFids(controls, loadRatio) ==
  LET champFids == BigMulSmall(
                     BigMulSmall(calculateChampionedPassRate(controls, loadRatio), 100),
                     controls.nChampion)
      normalFids == BigMulSmall(calculateWeightedCumulativePassRate(controls, loadRatio),
                                controls.nActive - controls.nChampion)
  IN  BigRound(SBigOf(BigAdd(champFids, normalFids)), CumRateDenFactors)

(***************************************************************************)
(* Stage durations, as Big numerators over StageDurDen months:             *)
(* 10 (base) * 10^4 (modality) * 10^3 (advisor) * 1500 (pmu)               *)
(* * 10 (champion) * 100 (capacity) * 100 (risk).                          *)
(***************************************************************************)
StageDurDenFactors == <<10, 10000, 1000, RateDen, 10, 100, 100>>
StageDurDen == BigMulAll(BigOfInt(1), StageDurDenFactors)

\* in hundredths
getCapacityDurationModifier(loadRatio) ==
  IF LoadAtMost(loadRatio, PARAMETERS.capacityThresholds.green) THEN 100
  ELSE IF LoadAtMost(loadRatio, PARAMETERS.capacityThresholds.yellow)
       THEN PARAMETERS.capacityPenalties.durationYellow
  ELSE PARAMETERS.capacityPenalties.durationRed

\* Faulty variant: the advisor modifier is never applied.
calculateStageDurationNoAdvisor(stage, context) ==
  LET controls == context.controls
      baseDuration == PARAMETERS.stages[stage].baseDuration
      modalityMod == PARAMETERS.modalities[context.modality].durationMultipliers[stage]
      pmuMod == RateDen - controls.pmuAdd * PARAMETERS.pmuMaxDurationReduction[stage]
      championMod == IF context.hasChampion /\ stage = 4
                     THEN PARAMETERS.championDurationReduction ELSE 10
      capacityMod == getCapacityDurationModifier(context.loadRatio)
      riskMod == PARAMETERS.riskDurationMod[controls.politicalRisk][stage]
      duration == BigMulAll(BigOfInt(baseDuration),
                    <<modalityMod, 1000, pmuMod, championMod, capacityMod, riskMod>>)
  IN  IF BigLess(duration, StageDurDen) THEN StageDurDen ELSE duration

\* Faulty variant: Math.min(1, duration) in place of Math.max(1, duration).
calculateStageDurationCapped(stage, context) ==
  LET controls == context.controls
      baseDuration == PARAMETERS.stages[stage].baseDuration
      modalityMod == PARAMETERS.modalities[context.modality].durationMultipliers[stage]
      advisorMod == IF controls.advisor THEN PARAMETERS.advisorDurationMod[stage] ELSE 1000
      pmuMod == RateDen - controls.pmuAdd * PARAMETERS.pmuMaxDurationReduction[stage]
      championMod == IF context.hasChampion /\ stage = 4
                     THEN PARAMETERS.championDurationReduction ELSE 10
      capacityMod == getCapacityDurationModifier(context.loadRatio)
      riskMod == PARAMETERS.riskDurationMod[controls.politicalRisk][stage]
      duration == BigMulAll(BigOfInt(baseDuration),
                    <<modalityMod, advisorMod, pmuMod, championMod, capacityMod, riskMod>>)
  IN  IF BigLess(duration, StageDurDen) THEN duration ELSE StageDurDen

calculateStageDuration(stage, context) ==
  LET controls == context.controls
      baseDuration == PARAMETERS.stages[stage].baseDuration
      modalityMod == PARAMETERS.modalities[context.modality].durationMultipliers[stage]
      advisorMod == IF controls.advisor THEN PARAMETERS.advisorDurationMod[stage] ELSE 1000
      pmuMod == RateDen - controls.pmuAdd * PARAMETERS.pmuMaxDurationReduction[stage]
      championMod == IF context.hasChampion /\ stage = 4
                     THEN PARAMETERS.championDurationReduction ELSE 10
      capacityMod == getCapacityDurationModifier(context.loadRatio)
      riskMod == PARAMETERS.riskDurationMod[controls.politicalRisk][stage]
      duration == BigMulAll(BigOfInt(baseDuration),
                    <<modalityMod, advisorMod, pmuMod, championMod, capacityMod, riskMod>>)
  IN  IF BigLess(duration, StageDurDen) THEN StageDurDen ELSE duration

RECURSIVE SumStages(_, _)
SumStages(D(_), i) ==
  IF i > Len(ACTIVE_STAGES) THEN << >>
  ELSE BigAdd(D(ACTIVE_STAGES[i]), SumStages(D, i + 1))

calculateTotalDuration(context) ==
  LET D(stage) == calculateStageDuration(stage, context)
  IN  SumStages(D, 1)

\* Big numerator over AvgDurDen = 100 * StageDurDen months
AvgDurDenFactors == <<100>> \o StageDurDenFactors
AvgDurDen == BigMulSmall(StageDurDen, 100)

calculateWeightedAverageDuration(controls, loadRatio) ==
  LET Tot(m) == calculateTotalDuration(
                  [controls |-> controls, modality |-> m,
                   hasChampion |-> FALSE, loadRatio |-> loadRatio])
  IN  WeightedSum(controls, Tot, 1)

(***************************************************************************)
(* Aggregation.  Money is in tenths of USD millions (MoneyDen = 10).       *)
(***************************************************************************)
YearSet == {SIMULATION_YEARS[i] : i \in 1..Len(SIMULATION_YEARS)}

RECURSIVE SumTo(_, _)
SumTo(F(_), n) == IF n = 0 THEN 0 ELSE F(n) + SumTo(F, n - 1)

\* Math.ceil(startYear + avgDurationMonths / 12)
FirstFidYear(avgDurationMonths) ==
  PARAMETERS.init.startYear
    + BigToInt(BigCeilDivAll(avgDurationMonths, <<12>> \o AvgDurDenFactors))

\* Faulty variant: the last year does not absorb the rounding difference.
distributeFidsAcrossYearsUnadjusted(totalFids, avgDurationMonths) ==
  LET firstFidYear == FirstFidYear(avgDurationMonths)
      remainingYears == SelectSeq(SIMULATION_YEARS, LAMBDA y : y >= firstFidYear)
      n == Len(remainingYears)
      Weight(i) == i
      totalWeight == SumTo(Weight, n)
      FidsThisYear(i) == RoundDiv(Weight(i) * totalFids, totalWeight)
      Position(y) == CHOOSE i \in 1..n : remainingYears[i] = y
  IN  IF n = 0
      THEN [y \in YearSet |-> IF y = 2030 THEN totalFids ELSE 0]
      ELSE [y \in YearSet |->
              IF y < firstFidYear THEN 0 ELSE FidsThisYear(Position(y))]

distributeFidsAcrossYears(totalFids, avgDurationMonths) ==
  LET firstFidYear == FirstFidYear(avgDurationMonths)
      remainingYears == SelectSeq(SIMULATION_YEARS, LAMBDA y : y >= firstFidYear)
      n == Len(remainingYears)
      Weight(i) == i
      totalWeight == SumTo(Weight, n)
      FidsThisYear(i) == RoundDiv(Weight(i) * totalFids, totalWeight)
      allocated == SumTo(FidsThisYear, n)
      Position(y) == CHOOSE i \in 1..n : remainingYears[i] = y
  IN  IF n = 0
      THEN [y \in YearSet |-> IF y = 2030 THEN totalFids ELSE 0]
      ELSE [y \in YearSet |->
              IF y < firstFidYear THEN 0
              ELSE IF y = remainingYears[n]
                   THEN FidsThisYear(n) + (totalFids - allocated)
              ELSE FidsThisYear(Position(y))]

distributeFidsByModality(totalFids, controls) ==
  LET govLed == RoundDiv(totalFids * controls.pctGovLed, 100)
      ppp == RoundDiv(totalFids * controls.pctPPP, 100)
      fullyPrivate == totalFids - govLed - ppp
  IN  [GOV_LED |-> govLed, PPP |-> ppp, FULLY_PRIVATE |-> Max(0, fullyPrivate)]

\* Faulty variant: the GOV_LED rate for every modality.
calculateCofinancingDemandFlatRate(capexUsdM, modality) ==
  (capexUsdM * PARAMETERS.modalities["GOV_LED"].cofinancingRate) \div 10

\* capexUsdM in tenths of USD millions; result in tenths of USD millions
calculateCofinancingDemand(capexUsdM, modality) ==
  (capexUsdM * PARAMETERS.modalities[modality].cofinancingRate) \div 10

calculateContingentLiability(capexUsdM, modality) ==
  (capexUsdM * PARAMETERS.modalities[modality].contingentLiabilityRate) \div 1000

\* Faulty variant: the total is summed from the modality split instead of
\* being fids * avgCapex.
calculateInvestmentMobilizedSummed(fids, controls) ==
  LET avgCapex == 10 * PARAMETERS.init.capexAvg
      fidsByModality == distributeFidsByModality(fids, controls)
      investmentByModality == [m \in Modalities |-> fidsByModality[m] * avgCapex]
      Inv(i) == investmentByModality[ModalityOrder[i]]
      totalInvestment == SumTo(Inv, Len(ModalityOrder))
      Cofin(i) == calculateCofinancingDemand(investmentByModality[ModalityOrder[i]],
                                             ModalityOrder[i])
      Conting(i) == calculateContingentLiability(investmentByModality[ModalityOrder[i]],
                                                 ModalityOrder[i])
      govCofinancing == SumTo(Cofin, Len(ModalityOrder))
  IN  [total |-> totalInvestment,
       private |-> totalInvestment - govCofinancing,
       govCofinancing |-> govCofinancing,
       byModality |-> investmentByModality,
       contingentLiabilities |-> SumTo(Conting, Len(ModalityOrder))]

calculateInvestmentMobilized(fids, controls) ==
  LET avgCapex == 10 * PARAMETERS.init.capexAvg
      totalInvestment == fids * avgCapex
      fidsByModality == distributeFidsByModality(fids, controls)
      investmentByModality == [m \in Modalities |-> fidsByModality[m] * avgCapex]
      Cofin(i) == calculateCofinancingDemand(investmentByModality[ModalityOrder[i]],
                                             ModalityOrder[i])
      Conting(i) == calculateContingentLiability(investmentByModality[ModalityOrder[i]],
                                                 ModalityOrder[i])
      govCofinancing == SumTo(Cofin, Len(ModalityOrder))
  IN  [total |-> totalInvestment,
       private |-> totalInvestment - govCofinancing,
       govCofinancing |-> govCofinancing,
       byModality |-> investmentByModality,
       contingentLiabilities |-> SumTo(Conting, Len(ModalityOrder))]

distributeCofinancingByYear(fidsByYear, controls) ==
  [year \in YearSet |->
     IF fidsByYear[year] > 0
     THEN calculateInvestmentMobilized(fidsByYear[year], controls).govCofinancing
     ELSE 0]

(***************************************************************************)
(* Fiscal mechanics.  Amounts in USD millions are Big numerators over      *)
(* UsdDen = 581 * 10^45: cfafPerUsd, five years of non-oil growth (10^20), *)
(* five years of oil growth (10^15) and the decimals of the rates (10^10). *)
(* The four limits and the fiscal space are over LimitDen = 1000 * UsdDen. *)
(***************************************************************************)
\* value * (1 + growth[y]) for the years before `year`; the later years
\* multiply by the unit of the table so that the denominator is unit^5
RECURSIVE Compound(_, _, _, _, _)
Compound(value, growth, unit, year, y) ==
  IF y >= PARAMETERS.init.endYear THEN value
  ELSE Compound(BigMulSmall(value, IF y < year THEN growth[y] ELSE unit),
                growth, unit, year, y + 1)

\* bbl/day over 10^15
calculateOilProduction(year) ==
  Compound(BigOfInt(PARAMETERS.fiscal.oilProd2025), PARAMETERS.fiscal.oilProdGrowth,
           1000, year, PARAMETERS.init.startYear)
OilProductionByYear == [year \in YearSet |-> calculateOilProduction(year)]

\* production * oilPrice * govTakeRate * daysPerYear / 1000000, over
\* 10^15 * 100 * 100 * 10^6 = 10^25, brought to UsdDen by 581 * 10^20
calculateOilRevenue(year, oilPrice) ==
  BigShift(BigMulAll(OilProductionByYear[year],
                     <<oilPrice, PARAMETERS.fiscal.govTakeRate,
                       PARAMETERS.fiscal.daysPerYear, PARAMETERS.fiscal.cfafPerUsd>>), 5)

\* CFAF billions over 10^20
calculateNonOilGdp(year) ==
  Compound(BigOfInt(PARAMETERS.fiscal.nonOilGdp2025), PARAMETERS.fiscal.nonOilGrowth,
           10000, year, PARAMETERS.init.startYear)
NonOilGdpByYear == [year \in YearSet |-> calculateNonOilGdp(year)]

\* nonOilGdp * taxRate / cfafPerUsd * 1000, over 581 * 10^23, to UsdDen by 10^22
calculateNonOilRevenue(year) ==
  BigShift(BigMulAll(NonOilGdpByYear[year],
                     <<PARAMETERS.fiscal.nonOilTaxRate[year], 1000, 100>>), 5)
NonOilRevenueByYear == [year \in YearSet |-> calculateNonOilRevenue(year)]

\* nonOilGdp * baseline * donorRate / cfafPerUsd * 1000, over 581 * 10^25,
\* to UsdDen by 10^20
calculateDonorGrants(year, donorRate) ==
  BigShift(BigMulAll(NonOilGdpByYear[year],
                     <<PARAMETERS.fiscal.donorBaseline[year], donorRate, 1000>>), 5)

calculateAnnualRevenue(year, controls) ==
  LET oilPrice == PARAMETERS.fiscal.oilPrices[controls.oilPrice]
      oil == calculateOilRevenue(year, oilPrice)
      nonOil == NonOilRevenueByYear[year]
      donors == calculateDonorGrants(year, controls.donorRate)
  IN  [total |-> BigAdd(BigAdd(oil, nonOil), donors),
       oil |-> oil, nonOil |-> nonOil, donors |-> donors]

\* donorRate in hundredths, 0.5 to 0.9
DonorRates == 50..90
AnnualRevenueByYear ==
  [year \in YearSet, oilPrice \in OilPriceScenarios, donorRate \in DonorRates |->
     calculateAnnualRevenue(year, [oilPrice |-> oilPrice, donorRate |-> donorRate])]

\* gdpCfaf / cfafPerUsd * 1000, over 581 * 10^20, to UsdDen by 10^25
calculateTotalGdp(year) ==
  BigShift(BigMulAll(Compound(BigOfInt(PARAMETERS.fiscal.totalGdp2025),
                              PARAMETERS.fiscal.nonOilGrowth, 10000, year,
                              PARAMETERS.init.startYear),
                     <<1000, 10>>), 6)
TotalGdpByYear == [year \in YearSet |-> calculateTotalGdp(year)]

\* over LimitDen
calculateCofinancingLimit(year, controls) ==
  BigMulSmall(AnnualRevenueByYear[year, controls.oilPrice, controls.donorRate].total, PARAMETERS.fiscal.maxCofinSafe)

\* (wages + interest + transfers) * nonOilGdp / cfafPerUsd * 1000, over
\* 581 * 10^23, to UsdDen by 10^22
calculateFixedObligations(year) ==
  LET nonOilGdp == NonOilGdpByYear[year]
      wages == BigMulSmall(nonOilGdp, PARAMETERS.fiscal.wages[year])
      interest == BigMulSmall(nonOilGdp, PARAMETERS.fiscal.interest)
      transfers == BigMulSmall(nonOilGdp, PARAMETERS.fiscal.transfers)
      totalCfaf == BigAdd(BigAdd(wages, interest), transfers)
  IN  BigShift(BigMulAll(totalCfaf, <<1000, 100>>), 5)
FixedObligationsByYear == [year \in YearSet |-> calculateFixedObligations(year)]

Abs(x) == IF x < 0 THEN -x ELSE x

\* signed, over LimitDen
\* revenue + deficitAllowance - fixedObligations - socialFloor, with
\* deficitAllowance = gdp * |maxDeficit| and socialFloor = fixedObligations * 0.3
DeficitLimitOf(revenue, gdp, fixedObligations) ==
  SBigDiff(BigAdd(BigMulSmall(revenue, 1000),
                  BigMulSmall(gdp, Abs(PARAMETERS.fiscal.maxDeficit))),
           BigAdd(BigMulSmall(fixedObligations, 1000),
                  BigMulSmall(fixedObligations, PARAMETERS.fiscal.socialFloor)))

calculateDeficitLimit(year, controls) ==
  DeficitLimitOf(AnnualRevenueByYear[year, controls.oilPrice, controls.donorRate].total,
                 TotalGdpByYear[year], FixedObligationsByYear[year])

\* signed, over LimitDen
calculateContingentLimit(year) ==
  LET gdp == TotalGdpByYear[year]
      existingContingent == BigMulSmall(gdp, PARAMETERS.fiscal.contingent2025)
  IN  SBigDiff(BigMulSmall(gdp, PARAMETERS.fiscal.maxContingent), existingContingent)
ContingentLimitByYear == [year \in YearSet |-> calculateContingentLimit(year)]

\* signed, over LimitDen
calculateDebtHeadroom(year) ==
  LET gdp == TotalGdpByYear[year]
      currentDebt == BigMulSmall(gdp, PARAMETERS.fiscal.debtGdp2025)
  IN  SBigDiff(BigMulSmall(gdp, PARAMETERS.fiscal.debtCeiling), currentDebt)
DebtHeadroomByYear == [year \in YearSet |-> calculateDebtHeadroom(year)]

\* Faulty variant: the minimum of the limits indexed to the oil price with the
\* ratio upside down (reference price 65 over the scenario's price).
calculateFiscalSpaceInvertedOilIndex(year, controls) ==
  LET space == SBigMin(SBigMin(SBigOf(calculateCofinancingLimit(year, controls)),
                               calculateDeficitLimit(year, controls)),
                       SBigMin(ContingentLimitByYear[year], DebtHeadroomByYear[year]))
  IN  [neg |-> space.neg,
       mag |-> BigDivSmall(BigMulSmall(space.mag, PARAMETERS.fiscal.oilPrices[65]),
                           PARAMETERS.fiscal.oilPrices[controls.oilPrice])]

\* Faulty variant: the contingent-liability limit is left out of the minimum.
calculateFiscalSpaceWithoutContingent(year, controls) ==
  SBigMin(SBigMin(SBigOf(calculateCofinancingLimit(year, controls)),
                  calculateDeficitLimit(year, controls)),
          DebtHeadroomByYear[year])

\* Math.min(cofinLimit, deficitLimit, contingentLimit, debtHeadroom)
calculateFiscalSpace(year, controls) ==
  SBigMin(SBigMin(SBigOf(calculateCofinancingLimit(year, controls)),
                  calculateDeficitLimit(year, controls)),
          SBigMin(ContingentLimitByYear[year], DebtHeadroomByYear[year]))

\* Faulty variant: the ratio upside down, gdp(year) over gdp(2025).
calculateDebtRatioInverted(year) ==
  [num |-> BigMulSmall(TotalGdpByYear[year], PARAMETERS.fiscal.debtGdp2025),
   den |-> BigMulSmall(TotalGdpByYear[PARAMETERS.init.startYear], 1000)]

\* [num, den]: (debtGdp2025 * gdp(2025) + newBorrowing) / gdp(year), with
\* newBorrowing = 0; num over 1000 * UsdDen, den over UsdDen
calculateDebtRatio(year) ==
  [num |-> BigMulSmall(TotalGdpByYear[PARAMETERS.init.startYear],
                       PARAMETERS.fiscal.debtGdp2025),
   den |-> BigMulSmall(TotalGdpByYear[year], 1000)]
DebtRatioByYear == [year \in YearSet |-> calculateDebtRatio(year)]

\* one tenth of a USD million, over LimitDen: 581 * 10^47
MoneyUnit == BigShift(BigOfInt(PARAMETERS.fiscal.cfafPerUsd * 1000), 11)

\* cofinDemand in tenths of USD millions, fiscalSpace signed over LimitDen;
\* cofinDemand / fiscalSpace <= t / 100
DemandRatioAtMost(cofinDemand, fiscalSpace, t) ==
  BigLeq(BigMulSmall(BigMulSmall(MoneyUnit, cofinDemand), 100),
         BigMulSmall(fiscalSpace.mag, t))

getFiscalStatus(cofinDemand, fiscalSpace) ==
  IF fiscalSpace.neg \/ fiscalSpace.mag = << >> THEN "RED"
  ELSE IF DemandRatioAtMost(cofinDemand, fiscalSpace, PARAMETERS.fiscalThresholds.green)
       THEN "GREEN"
  ELSE IF DemandRatioAtMost(cofinDemand, fiscalSpace, PARAMETERS.fiscalThresholds.yellow)
       THEN "YELLOW"
  ELSE "RED"

\* debtRatio >= t / 1000
DebtRatioAtLeast(debtRatio, t) ==
  BigLeq(BigMulSmall(debtRatio.den, t), BigMulSmall(debtRatio.num, 1000))

getDebtStatus(debtRatio) ==
  IF DebtRatioAtLeast(debtRatio, PARAMETERS.fiscal.debtCeiling) THEN "RED"
  ELSE IF DebtRatioAtLeast(debtRatio, PARAMETERS.fiscal.debtWarning) THEN "YELLOW"
  ELSE "GREEN"

statusOrder == <<"GREEN", "YELLOW", "RED">>
StatusIndex(status) == CHOOSE i \in 1..3 : statusOrder[i] = status

getCombinedFiscalStatus(flowStatus, debtStatus) ==
  statusOrder[Max(StatusIndex(flowStatus), StatusIndex(debtStatus))]

\* one entry of the projection
AnnualFiscalData(year, revenue, fiscalSpace, cofinDemand, debtRatio) ==
  [year |-> year,
   revenue |-> revenue.total,
   oilRevenue |-> revenue.oil,
   nonOilRevenue |-> revenue.nonOil,
   donorGrants |-> revenue.donors,
   fiscalSpace |-> fiscalSpace,
   cofinancingDemand |-> cofinDemand,
   debtRatio |-> debtRatio,
   fiscalStatus |-> getCombinedFiscalStatus(getFiscalStatus(cofinDemand, fiscalSpace),
                                            getDebtStatus(debtRatio))]

ProjectionOfYear(year, controls, cofinByYear) ==
  AnnualFiscalData(year,
                   AnnualRevenueByYear[year, controls.oilPrice, controls.donorRate],
                   calculateFiscalSpace(year, controls),
                   cofinByYear[year],
                   DebtRatioByYear[year])

generateFiscalProjection(controls, cofinByYear) ==
  [i \in 1..Len(SIMULATION_YEARS) |->
     ProjectionOfYear(SIMULATION_YEARS[i], controls, cofinByYear)]

\* Faulty variant: the last RED year in place of the first.
findBreachYearLast(fiscalProjection) ==
  LET red == {i \in 1..Len(fiscalProjection) : fiscalProjection[i].fiscalStatus = "RED"}
  IN  IF red = {} THEN [year |-> {}, reason |-> {}]
      ELSE LET last == CHOOSE i \in red : \A j \in red : i >= j
               data == fiscalProjection[last]
               demand == BigMulSmall(MoneyUnit, data.cofinancingDemand)
               reasons ==
                 (IF data.fiscalSpace.neg \/ BigLess(data.fiscalSpace.mag, demand)
                  THEN {"co-financing exceeds fiscal space"} ELSE {})
                 \cup
                 (IF DebtRatioAtLeast(data.debtRatio, PARAMETERS.fiscal.debtCeiling)
                  THEN {"debt ceiling breached"} ELSE {})
           IN  [year |-> {data.year},
                reason |-> IF reasons = {} THEN {"fiscal limit exceeded"} ELSE reasons]

\* year is {} for null and {y} otherwise; reason is {} for null and otherwise
\* the set of the reasons that the code joins with '; '
findBreachYear(fiscalProjection) ==
  LET red == {i \in 1..Len(fiscalProjection) : fiscalProjection[i].fiscalStatus = "RED"}
  IN  IF red = {} THEN [year |-> {}, reason |-> {}]
      ELSE LET first == CHOOSE i \in red : \A j \in red : i <= j
               data == fiscalProjection[first]
               demand == BigMulSmall(MoneyUnit, data.cofinancingDemand)
               reasons ==
                 (IF data.fiscalSpace.neg \/ BigLess(data.fiscalSpace.mag, demand)
                  THEN {"co-financing exceeds fiscal space"} ELSE {})
                 \cup
                 (IF DebtRatioAtLeast(data.debtRatio, PARAMETERS.fiscal.debtCeiling)
                  THEN {"debt ceiling breached"} ELSE {})
           IN  [year |-> {data.year},
                reason |-> IF reasons = {} THEN {"fiscal limit exceeded"} ELSE reasons]

\* Faulty variant: every() in place of some(): a status counts only when all
\* the years have it.
determineOverallFiscalStatusEveryYear(fiscalProjection) ==
  IF \A i \in 1..Len(fiscalProjection) : fiscalProjection[i].fiscalStatus = "RED"
  THEN "RED"
  ELSE IF \A i \in 1..Len(fiscalProjection) : fiscalProjection[i].fiscalStatus = "YELLOW"
       THEN "YELLOW"
  ELSE "GREEN"

determineOverallFiscalStatus(fiscalProjection) ==
  IF \E i \in 1..Len(fiscalProjection) : fiscalProjection[i].fiscalStatus = "RED"
  THEN "RED"
  ELSE IF \E i \in 1..Len(fiscalProjection) : fiscalProjection[i].fiscalStatus = "YELLOW"
       THEN "YELLOW"
  ELSE "GREEN"

(***************************************************************************)
(* Drops, capacity status, preparation cost, pipeline table                *)
(***************************************************************************)
\* average pass rate of a gate over modalities, over AvgRateDen = 100 * RateDen
AvgRateDen == 100 * RateDen

\* Faulty variant: the champion boost enters the average rates as soon as
\* a project is championed.
calculateAverageGatePassRatesChampioned(controls, loadRatio) ==
  [gate \in 2..6 |->
     LET Rate(i) == ModalityWeight(controls, ModalityOrder[i])
                    * calculateGatePassRate(gate,
                        [controls |-> controls, modality |-> ModalityOrder[i],
                         hasChampion |-> controls.nChampion > 0, loadRatio |-> loadRatio])
     IN  SumTo(Rate, Len(ModalityOrder))]

calculateAverageGatePassRates(controls, loadRatio) ==
  [gate \in 2..6 |->
     LET Rate(i) == ModalityWeight(controls, ModalityOrder[i])
                    * calculateGatePassRate(gate,
                        [controls |-> controls, modality |-> ModalityOrder[i],
                         hasChampion |-> FALSE, loadRatio |-> loadRatio])
     IN  SumTo(Rate, Len(ModalityOrder))]

\* surviving is a Big numerator over AvgRateDen^(i-1) before the i-th gate
RECURSIVE DropsFrom(_, _, _)
DropsFrom(surviving, gatePassRates, i) ==
  IF i > Len(ACTIVE_GATES) THEN << >>
  ELSE LET passRate == gatePassRates[ACTIVE_GATES[i]]
           passing == BigMulSmall(surviving, passRate)
           dropping == SBigDiff(BigMulSmall(surviving, AvgRateDen), passing)
       IN  <<BigRound(dropping, [j \in 1..i |-> AvgRateDen])>>
           \o DropsFrom(passing, gatePassRates, i + 1)

\* Faulty variant: the drops carry the sign of passing - surviving.
calculateDropsByGateSigned(nActive, gatePassRates) ==
  LET drops == DropsFrom(BigOfInt(nActive), gatePassRates, 1)
      Drop(i) == 0 - drops[i]
  IN  [total |-> SumTo(Drop, Len(ACTIVE_GATES)),
       byGate |-> [gate \in 2..6 |-> 0 - drops[gate - 1]]]

calculateDropsByGate(nActive, gatePassRates) ==
  LET drops == DropsFrom(BigOfInt(nActive), gatePassRates, 1)
      Drop(i) == drops[i]
  IN  [total |-> SumTo(Drop, Len(ACTIVE_GATES)),
       byGate |-> [gate \in 2..6 |-> drops[gate - 1]]]

\* largest q in lo..hi with q * b <= a
RECURSIVE BigQuotient(_, _, _, _)
BigQuotient(a, b, lo, hi) ==
  IF lo >= hi THEN lo
  ELSE LET mid == (lo + hi + 1) \div 2
       IN  IF BigLeq(BigMulSmall(b, mid), a) THEN BigQuotient(a, b, mid, hi)
           ELSE BigQuotient(a, b, lo, mid - 1)

\* Math.round((baseDuration / totalDuration) * nActive)
estimateProjectsByStage(nActive, totalDuration) ==
  [stage \in 2..6 |->
     LET stageDuration == PARAMETERS.stages[stage].baseDuration
         twice == BigAdd(BigMulSmall(AvgDurDen, 2 * stageDuration * nActive),
                         BigMulSmall(totalDuration, 10))
     IN  BigQuotient(twice, BigMulSmall(totalDuration, 20), 0, 3 * nActive + 1)]

\* in tenths of a project
getEffectiveCapacity(stage, totalCapacity) ==
  IF stage = 4 THEN Min(totalCapacity, 10 * PARAMETERS.stage4Max) ELSE totalCapacity

calculateLoadRatio(projectsInStage, stage, totalCapacity) ==
  [num |-> 10 * projectsInStage, den |-> getEffectiveCapacity(stage, totalCapacity)]

LoadMax(r1, r2) == IF r1.num * r2.den >= r2.num * r1.den THEN r1 ELSE r2

RECURSIVE PeakFrom(_, _, _, _)
PeakFrom(peakRatio, projectsByStage, totalCapacity, i) ==
  IF i > Len(ACTIVE_STAGES) THEN peakRatio
  ELSE PeakFrom(LoadMax(peakRatio,
                        calculateLoadRatio(projectsByStage[ACTIVE_STAGES[i]],
                                           ACTIVE_STAGES[i], totalCapacity)),
                projectsByStage, totalCapacity, i + 1)

calculatePeakLoadRatio(projectsByStage, totalCapacity) ==
  PeakFrom([num |-> 0, den |-> 1], projectsByStage, totalCapacity, 1)

\* USD thousands
stageCosts == [
  GOV_LED |-> (2 :> 15 @@ 3 :> 100 @@ 4 :> 900 @@ 5 :> 35 @@ 6 :> 12),
  PPP |-> (2 :> 15 @@ 3 :> 60 @@ 4 :> 500 @@ 5 :> 35 @@ 6 :> 12),
  FULLY_PRIVATE |-> (2 :> 15 @@ 3 :> 50 @@ 4 :> 490 @@ 5 :> 35 @@ 6 :> 12)]

\* in thousandths of USD millions
calculatePreparationCost(fids, drops, controls) ==
  LET fidsByModality == distributeFidsByModality(fids, controls)
      costByModality ==
        [m \in Modalities |->
           LET Cost(i) == stageCosts[m][ACTIVE_STAGES[i]]
           IN  fidsByModality[m] * SumTo(Cost, Len(ACTIVE_STAGES))]
      droppedCost == (drops.total * 25 * 100) \div 10
      FidCost(i) == costByModality[ModalityOrder[i]]
  IN  [total |-> SumTo(FidCost, Len(ModalityOrder)) + droppedCost,
       byModality |-> costByModality,
       fidProjects |-> fids,
       droppedProjects |-> drops.total]

\* A double that may not be a number: Num(n) is the number n, NaN the value
\* of 0 * Infinity, which Math.round, += and Math.max hand on.
NaN == [nan |-> TRUE]
Num(n) == [nan |-> FALSE, num |-> n]

\* dropped and inFlight are NaN when totalDrops / totalFids is infinite
\* (totalFids = 0 with totalDrops # 0): every year has 0 FIDs and 0 * Infinity
\* is not a number
RECURSIVE PipelineFrom(_, _, _, _, _, _, _, _)
PipelineFrom(fidsByYear, totalFids, totalDrops, nActive, controls,
             cumulativeFidsIn, cumulativeDropsIn, i) ==
  IF i > Len(SIMULATION_YEARS) THEN << >>
  ELSE LET year == SIMULATION_YEARS[i]
           fidsThisYear == fidsByYear[year]
           cumulativeFids == cumulativeFidsIn + fidsThisYear
           nan == totalFids = 0 /\ totalDrops # 0
           dropsThisYear == IF totalFids = 0 THEN 0
                            ELSE RoundDiv(fidsThisYear * totalDrops, totalFids)
           cumulativeDrops == cumulativeDropsIn + dropsThisYear
           inFlight == Max(0, nActive - cumulativeFids - cumulativeDrops)
           investment == calculateInvestmentMobilized(fidsThisYear, controls)
       IN  <<[year |-> year,
              fids |-> fidsThisYear,
              cumulativeFids |-> cumulativeFids,
              dropped |-> IF nan THEN NaN ELSE Num(dropsThisYear),
              inFlight |-> IF nan THEN NaN ELSE Num(inFlight),
              investmentMobilized |-> investment.total,
              privateCapital |-> investment.private,
              govCofinancing |-> investment.govCofinancing]>>
           \o PipelineFrom(fidsByYear, totalFids, totalDrops, nActive, controls,
                           cumulativeFids, cumulativeDrops, i + 1)

generatePipelineData(totalFids, totalDrops, nActive, avgDuration, controls) ==
  PipelineFrom(distributeFidsAcrossYears(totalFids, avgDuration),
               totalFids, totalDrops, nActive, controls, 0, 0, 1)

\* avgTime < months, avgTime > months
TimeBelow(avgTime, months) == BigLess(avgTime, BigMulSmall(AvgDurDen, months))
TimeAbove(avgTime, months) == BigLess(BigMulSmall(AvgDurDen, months), avgTime)

\* warning is the sequence of the warnings that the code joins with '; ';
\* the empty sequence stands for null
\* Faulty variant: the optimized time check reads the baseline time range.
validateBoundsBaselineTime(fids, avgTime, controls) ==
  LET bounds == PARAMETERS.bounds
      isBaseline == ~controls.advisor /\ controls.pmuAdd = 0
      isAdvisorOnly == controls.advisor /\ controls.pmuAdd = 0
      isOptimized == controls.advisor /\ controls.pmuAdd >= 10 /\ controls.nChampion >= 10
      fidWarnings ==
        IF isBaseline
        THEN IF fids < bounds.fidBaselineMin \/ fids > bounds.fidBaselineMax
             THEN <<"Baseline FIDs outside expected range">> ELSE << >>
        ELSE IF isAdvisorOnly
        THEN IF fids < bounds.fidAdvMin \/ fids > bounds.fidAdvMax
             THEN <<"Advisor-only FIDs outside expected range">> ELSE << >>
        ELSE IF isOptimized
        THEN IF fids < bounds.fidOptMin \/ fids > bounds.fidOptMax
             THEN <<"Optimized FIDs outside expected range">> ELSE << >>
        ELSE << >>
      timeWarnings ==
        IF isBaseline
        THEN IF TimeBelow(avgTime, bounds.timeBaselineMin)
                  \/ TimeAbove(avgTime, bounds.timeBaselineMax)
             THEN <<"Baseline time outside expected range">> ELSE << >>
        ELSE IF isOptimized
        THEN IF TimeBelow(avgTime, bounds.timeBaselineMin)
                  \/ TimeAbove(avgTime, bounds.timeBaselineMax)
             THEN <<"Optimized time outside expected range">> ELSE << >>
        ELSE << >>
      investment == fids * PARAMETERS.init.capexAvg
      investmentWarnings ==
        IF investment > bounds.invMax
        THEN <<"Investment exceeds portfolio cap">> ELSE << >>
      warnings == fidWarnings \o timeWarnings \o investmentWarnings
  IN  [isValid |-> Len(warnings) = 0, warning |-> warnings]

validateBounds(fids, avgTime, controls) ==
  LET bounds == PARAMETERS.bounds
      isBaseline == ~controls.advisor /\ controls.pmuAdd = 0
      isAdvisorOnly == controls.advisor /\ controls.pmuAdd = 0
      isOptimized == controls.advisor /\ controls.pmuAdd >= 10 /\ controls.nChampion >= 10
      fidWarnings ==
        IF isBaseline
        THEN IF fids < bounds.fidBaselineMin \/ fids > bounds.fidBaselineMax
             THEN <<"Baseline FIDs outside expected range">> ELSE << >>
        ELSE IF isAdvisorOnly
        THEN IF fids < bounds.fidAdvMin \/ fids > bounds.fidAdvMax
             THEN <<"Advisor-only FIDs outside expected range">> ELSE << >>
        ELSE IF isOptimized
        THEN IF fids < bounds.fidOptMin \/ fids > bounds.fidOptMax
             THEN <<"Optimized FIDs outside expected range">> ELSE << >>
        ELSE << >>
      timeWarnings ==
        IF isBaseline
        THEN IF TimeBelow(avgTime, bounds.timeBaselineMin)
                  \/ TimeAbove(avgTime, bounds.timeBaselineMax)
             THEN <<"Baseline time outside expected range">> ELSE << >>
        ELSE IF isOptimized
        THEN IF TimeBelow(avgTime, bounds.timeOptMin)
                  \/ TimeAbove(avgTime, bounds.timeOptMax)
             THEN <<"Optimized time outside expected range">> ELSE << >>
        ELSE << >>
      investment == fids * PARAMETERS.init.capexAvg
      investmentWarnings ==
        IF investment > bounds.invMax
        THEN <<"Investment exceeds portfolio cap">> ELSE << >>
      warnings == fidWarnings \o timeWarnings \o investmentWarnings
  IN  [isValid |-> Len(warnings) = 0, warning |-> warnings]

(***************************************************************************)
(* runSimulation: the outputs record of the result.  executionTimeMs is a  *)
(* wall-clock reading outside outputs and projectStates is always empty.   *)
(***************************************************************************)
\* the outputs record
buildOutputs(totalFids, avgDuration, investment, drops, fiscalProjection, breach, peakLoadRatio, prepCost, pipelineByYear, boundsValidation) ==
  [nFid |-> totalFids,
   investmentTotal |-> investment.total,
   investmentPrivate |-> investment.private,
   cofinancingTotal |-> investment.govCofinancing,
   fiscalStatus |-> determineOverallFiscalStatus(fiscalProjection),
   nDropped |-> drops.total,
   avgTimeToFid |-> avgDuration,
   prepCost |-> prepCost.total,
   fiscalByYear |-> fiscalProjection,
   pipelineByYear |-> pipelineByYear,
   dropsByGate |-> drops.byGate,
   investmentByModality |-> investment.byModality,
   capacityStatus |-> getCapacityStatus(peakLoadRatio),
   peakLoadRatio |-> peakLoadRatio,
   breachYear |-> breach.year,
   breachReason |-> breach.reason,
   isWithinBounds |-> boundsValidation.isValid,
   boundsWarning |-> boundsValidation.warning]

\* steps 11 to 15 and the outputs
runSimulationFromProjection(controls, totalFids, avgDuration, drops, fiscalProjection) ==
  buildOutputs(totalFids, avgDuration,
               calculateInvestmentMobilized(totalFids, controls),
               drops,
               fiscalProjection,
               findBreachYear(fiscalProjection),
               calculatePeakLoadRatio(
                 estimateProjectsByStage(controls.nActive, avgDuration),
                 calculateTotalCapacity(controls)),
               calculatePreparationCost(totalFids, drops, controls),
               generatePipelineData(totalFids, drops.total, controls.nActive,
                                    avgDuration, controls),
               validateBounds(totalFids, avgDuration, controls))

\* steps 6, 9 and 10: FIDs by year, co-financing by year, fiscal projection
runSimulationFromFids(controls, totalFids, avgDuration, drops) ==
  runSimulationFromProjection(controls, totalFids, avgDuration, drops,
    generateFiscalProjection(controls,
      distributeCofinancingByYear(distributeFidsAcrossYears(totalFids, avgDuration),
                                  controls)))

\* steps 3 to 5 and 8: duration, pass rates, expected FIDs, drops by gate
runSimulationAtLoad(controls, estimatedLoadRatio) ==
  runSimulationFromFids(controls,
    ExpectedFids(controls, estimatedLoadRatio),
    calculateWeightedAverageDuration(controls, estimatedLoadRatio),
    calculateDropsByGate(controls.nActive,
                         calculateAverageGatePassRates(controls, estimatedLoadRatio)))

runSimulation(controls) == runSimulationAtLoad(controls, EstimatedLoadRatio(controls))

(***************************************************************************)
(* The control sets explored: the control sets that the engine's tests     *)
(* name, and a grid over the ranges of ControlInputs (nActive 20..268,     *)
(* pmuAdd 0..15, nChampion 0..20, a modality split that sums to 100, the   *)
(* oil price scenarios, donorRate 0.5..0.9, the three risk levels).        *)
(***************************************************************************)
NActiveLevels == 2
SplitLevels == 2

\* n + 1 evenly spaced integers from lo to hi
Points(lo, hi, n) == {lo + ((hi - lo) * i) \div n : i \in 0..n}

advisorControls == [DEFAULT_CONTROLS EXCEPT !.advisor = TRUE]

optimizedControls ==
  [DEFAULT_CONTROLS EXCEPT !.advisor = TRUE, !.pmuAdd = 15, !.nChampion = 20,
                           !.pctGovLed = 40, !.pctPPP = 50, !.pctPrivate = 10]

lowOilControls == [DEFAULT_CONTROLS EXCEPT !.oilPrice = 50]

govLedHeavy ==
  [DEFAULT_CONTROLS EXCEPT !.pctGovLed = 90, !.pctPPP = 8, !.pctPrivate = 2]

pppHeavy ==
  [DEFAULT_CONTROLS EXCEPT !.pctGovLed = 20, !.pctPPP = 70, !.pctPrivate = 10]

NamedControls ==
  {DEFAULT_CONTROLS, advisorControls, optimizedControls, lowOilControls,
   govLedHeavy, pppHeavy}

ModalitySplits ==
  {split \in {<<g, p, 100 - g - p>> : g \in Points(0, 100, SplitLevels),
                                      p \in Points(0, 100, SplitLevels)} :
     split[3] >= 0}

ControlGrid ==
  {[advisor |-> a, pmuAdd |-> pmu, nChampion |-> champ, nActive |-> n,
    pctGovLed |-> split[1], pctPPP |-> split[2], pctPrivate |-> split[3],
    oilPrice |-> oil, donorRate |-> donor, politicalRisk |-> risk] :
     a \in BOOLEAN, pmu \in {0, MAX_PMU_ADD}, champ \in {0, 20},
     n \in Points(20, 268, NActiveLevels), split \in ModalitySplits,
     oil \in {50, 65}, donor \in {50, 90}, risk \in RiskLevels}

ControlDomain == NamedControls \cup ControlGrid

(***************************************************************************)
(* The state: a control set and the outputs of the run on it, << >> before *)
(* the run and <<outputs>> after it.  runSimulation reads nothing but its  *)
(* argument and writes nothing but its result.                             *)
(***************************************************************************)
\* controls, outputs: the controls given to the engine and the outputs it
\* returned (<< >> before the run, <<outputs>> after).
\* call, result: a direct call of one function of the engine, as a record
\* [fn, arguments...], and <<its result>> once it has returned.
\* scenarios, isCalculating: the other fields of the state of the provider
\* (src/unnamed/part_009); pending: the 10 ms timers of the run-simulation
\* effect that have not fired, oldest first, each with the controls its
\* closure holds; controlsRef: <<obj>> when state.controls is the controls
\* object of the scenario obj, << >> when it is an object of its own;
\* changes: the number of calls of the context's functions so far;
\* outputsSeq: the value of changes when the run that produced outputs was
\* scheduled.
VARIABLES controls, outputs, call, result, scenarios, isCalculating, pending, controlsRef, changes, outputsSeq

appVars == <<scenarios, isCalculating, pending, controlsRef, changes, outputsSeq>>
vars == <<controls, outputs, call, result, appVars>>

NoCall == [fn |-> "none"]

\* no provider is mounted
NoProvider ==
  /\ scenarios = << >>
  /\ isCalculating = FALSE
  /\ pending = << >>
  /\ controlsRef = << >>
  /\ changes = 0
  /\ outputsSeq = 0

Init ==
  /\ controls \in ControlDomain
  /\ outputs = << >>
  /\ call = NoCall
  /\ result = << >>
  /\ NoProvider

RunSimulation ==
  /\ call = NoCall
  /\ outputs = << >>
  /\ outputs' = <<runSimulation(controls)>>
  /\ UNCHANGED <<controls, call, result, appVars>>

Next == RunSimulation

Spec == Init /\ [][Next]_vars

(***************************************************************************)
(* Direct calls of the functions of the engine, on arguments drawn from    *)
(* bounded sets.                                                           *)
(***************************************************************************)
MaxFids == 12
MaxDurationMonths == 72
SmallActiveMax == 4

\* load ratios below, on and above the thresholds 0.8 and 1.0, and the cap 1.2
LoadRatios == {[num |-> n, den |-> 10] : n \in {0, 5, 8, 9, 10, 11, 12, 30}}

GatePassRateCalls ==
  {[fn |-> "calculateGatePassRate", gate |-> gate,
    context |-> [controls |-> [DEFAULT_CONTROLS EXCEPT !.advisor = advisor,
                                                       !.pmuAdd = pmuAdd,
                                                       !.politicalRisk = risk],
                 modality |-> modality, hasChampion |-> hasChampion,
                 loadRatio |-> loadRatio]] :
     gate \in 2..6, advisor \in BOOLEAN, pmuAdd \in 0..MAX_PMU_ADD, risk \in RiskLevels,
     modality \in Modalities, hasChampion \in BOOLEAN, loadRatio \in LoadRatios}

\* durations of whole months and a hundredth of a month above them, as Big
\* numerators over AvgDurDen = 100 * StageDurDen
DurationHundredths ==
  {100 * m + d : m \in 0..MaxDurationMonths, d \in {0, 1}} \ {0}

FidsAcrossYearsCalls ==
  {[fn |-> "distributeFidsAcrossYears", totalFids |-> f, hundredths |-> h,
    avgDurationMonths |-> BigMulSmall(StageDurDen, h)] :
     f \in 0..MaxFids, h \in DurationHundredths}

\* the integer percentages that sum to 100
PercentSplits ==
  UNION {{[pctGovLed |-> g, pctPPP |-> p, pctPrivate |-> 100 - g - p] : p \in 0..(100 - g)} :
           g \in 0..100}

FidsByModalityCalls ==
  {[fn |-> "distributeFidsByModality", totalFids |-> f,
    controls |-> [DEFAULT_CONTROLS EXCEPT !.pctGovLed = split.pctGovLed,
                                          !.pctPPP = split.pctPPP,
                                          !.pctPrivate = split.pctPrivate]] :
     f \in 0..MaxFids, split \in PercentSplits}

\* control sets below the range of the nActive slider
SmallControls ==
  {[DEFAULT_CONTROLS EXCEPT !.nActive = n, !.nChampion = c, !.advisor = advisor,
                            !.politicalRisk = risk,
                            !.pctGovLed = g, !.pctPPP = 100 - g - DEFAULT_CONTROLS.pctPrivate] :
     n \in 0..SmallActiveMax, c \in 0..SmallActiveMax, advisor \in BOOLEAN,
     risk \in RiskLevels, g \in {DEFAULT_CONTROLS.pctGovLed, 100 - DEFAULT_CONTROLS.pctPrivate}}

RunSimulationCalls ==
  {[fn |-> "runSimulation", controls |-> c] : c \in {k \in SmallControls : k.nChampion <= k.nActive}}

FnInit ==
  /\ controls = DEFAULT_CONTROLS
  /\ outputs = << >>
  /\ \/ call \in GatePassRateCalls
     \/ call \in FidsAcrossYearsCalls
     \/ call \in FidsByModalityCalls
     \/ call \in RunSimulationCalls
  /\ result = << >>
  /\ NoProvider

CallGatePassRate ==
  /\ call.fn = "calculateGatePassRate"
  /\ result = << >>
  /\ result' = <<calculateGatePassRate(call.gate, call.context)>>
  /\ UNCHANGED <<controls, outputs, call, appVars>>

CallFidsAcrossYears ==
  /\ call.fn = "distributeFidsAcrossYears"
  /\ result = << >>
  /\ result' = <<distributeFidsAcrossYears(call.totalFids, call.avgDurationMonths)>>
  /\ UNCHANGED <<controls, outputs, call, appVars>>

CallFidsByModality ==
  /\ call.fn = "distributeFidsByModality"
  /\ result = << >>
  /\ result' = <<distributeFidsByModality(call.totalFids, call.controls)>>
  /\ UNCHANGED <<controls, outputs, call, appVars>>

CallRunSimulation ==
  /\ call.fn = "runSimulation"
  /\ result = << >>
  /\ result' = <<runSimulation(call.controls)>>
  /\ UNCHANGED <<controls, outputs, call, appVars>>

FnNext == CallGatePassRate \/ CallFidsAcrossYears \/ CallFidsByModality \/ CallRunSimulation

FnSpec == FnInit /\ [][FnNext]_vars

(***************************************************************************)
(* The provider of the simulation state (SimulationProvider): a reducer    *)
(* over the state, the effect that runs the simulation 10 ms after every   *)
(* change of state.controls, and the functions of the context.  The fields *)
(* error and lastCalculationTime are left out: runSimulation does not      *)
(* throw, so SET_ERROR is never dispatched, and nothing reads the time.    *)
(***************************************************************************)
MaxChanges == 2
MaxClock == 2

PctFields == {"pctGovLed", "pctPPP", "pctPrivate"}
PctValues == {0, 100}

\* { ...base, ...partial }
Spread(base, partial) == partial @@ base

\* field ?? 0
OrZero(partial, field) == IF field \in DOMAIN partial THEN partial[field] ELSE 0

\* on integers |total - 100| < 0.01 is total = 100
normalizeModalityPercentages(partial) ==
  LET govLed == OrZero(partial, "pctGovLed")
      ppp == OrZero(partial, "pctPPP")
      priv == OrZero(partial, "pctPrivate")
      total == govLed + ppp + priv
  IN  IF DOMAIN partial \cap PctFields = {} THEN partial
      ELSE IF total = 100 THEN partial
      ELSE IF total > 0
        THEN Spread(partial,
                    [pctGovLed |-> RoundDiv(govLed * 100, total),
                     pctPPP |-> RoundDiv(ppp * 100, total),
                     pctPrivate |-> 100 - RoundDiv(govLed * 100, total)
                                        - RoundDiv(ppp * 100, total)])
      ELSE partial

userScenarios(list) == SelectSeq(list, LAMBDA sc : ~sc.isPreset)

RECURSIVE WithoutId(_, _)
WithoutId(list, id) ==
  IF list = << >> THEN << >>
  ELSE (IF Head(list).id = id THEN << >> ELSE <<Head(list)>>) \o WithoutId(Tail(list), id)

\* Faulty variant: a fifth user scenario is accepted (> in place of >=).
simulationReducerOffByOne(state, action) ==
  CASE action.type = "SET_CONTROLS" ->
         [state EXCEPT !.controls = Spread(state.controls, action.payload)]
    [] action.type = "SET_OUTPUTS" ->
         [state EXCEPT !.outputs = <<action.payload>>, !.isCalculating = FALSE]
    [] action.type = "SET_CALCULATING" ->
         [state EXCEPT !.isCalculating = action.payload]
    [] action.type = "SAVE_SCENARIO" ->
         IF Len(userScenarios(state.scenarios)) > 4 THEN state
         ELSE [state EXCEPT !.scenarios = Append(state.scenarios, action.payload)]
    [] action.type = "DELETE_SCENARIO" ->
         [state EXCEPT !.scenarios = WithoutId(state.scenarios, action.payload)]
    [] action.type = "LOAD_SCENARIO" ->
         [state EXCEPT !.controls = action.payload.controls]

simulationReducer(state, action) ==
  CASE action.type = "SET_CONTROLS" ->
         [state EXCEPT !.controls = Spread(state.controls, action.payload)]
    [] action.type = "SET_OUTPUTS" ->
         [state EXCEPT !.outputs = <<action.payload>>, !.isCalculating = FALSE]
    [] action.type = "SET_CALCULATING" ->
         [state EXCEPT !.isCalculating = action.payload]
    [] action.type = "SAVE_SCENARIO" ->
         IF Len(userScenarios(state.scenarios)) >= 4 THEN state
         ELSE [state EXCEPT !.scenarios = Append(state.scenarios, action.payload)]
    [] action.type = "DELETE_SCENARIO" ->
         [state EXCEPT !.scenarios = WithoutId(state.scenarios, action.payload)]
    [] action.type = "LOAD_SCENARIO" ->
         [state EXCEPT !.controls = action.payload.controls]

initialState ==
  [controls |-> DEFAULT_CONTROLS, outputs |-> << >>, scenarios |-> << >>,
   isCalculating |-> FALSE]

\* overrides of the defaults; ids are [kind, n] for `${kind}_${n}`
PRESET_CONFIGS == <<
  [advisor |-> FALSE, pmuAdd |-> 0, nChampion |-> 0],
  [advisor |-> TRUE, pmuAdd |-> 0, nChampion |-> 0],
  [advisor |-> TRUE, pmuAdd |-> 15, nChampion |-> 20],
  [advisor |-> TRUE, pctGovLed |-> 40, pctPPP |-> 50, pctPrivate |-> 10],
  [oilPrice |-> 50]>>

\* obj: the identity of the scenario object, presets 0..4
generatePresets ==
  [index \in 1..Len(PRESET_CONFIGS) |->
     [id |-> [kind |-> "preset", n |-> index - 1],
      obj |-> index - 1,
      controls |-> Spread(DEFAULT_CONTROLS, PRESET_CONFIGS[index]),
      outputs |-> runSimulation(Spread(DEFAULT_CONTROLS, PRESET_CONFIGS[index])),
      isPreset |-> TRUE]]

state ==
  [controls |-> controls, outputs |-> outputs, scenarios |-> scenarios,
   isCalculating |-> isCalculating]

\* the run-simulation effect of a render whose state.controls is a new
\* object: SET_CALCULATING true, and a timer that holds these controls
runSim(st) ==
  [state |-> simulationReducer(st, [type |-> "SET_CALCULATING", payload |-> TRUE]),
   timer |-> [controls |-> st.controls, seq |-> changes + 1]]

\* the partial updates: any of the three percentages, and other fields
PartialUpdates ==
  UNION {[fields -> PctValues] : fields \in SUBSET PctFields}
    \cup {[advisor |-> TRUE], [pctGovLed |-> 100, advisor |-> TRUE]}

\* the state after a render and its effect, and the timer the effect set
Rendered(next, timers, ref) ==
  /\ controls' = next.controls
  /\ outputs' = next.outputs
  /\ scenarios' = next.scenarios
  /\ isCalculating' = next.isCalculating
  /\ pending' = timers
  /\ controlsRef' = ref
  /\ changes' = changes + 1
  /\ UNCHANGED <<call, result, outputsSeq>>

\* a dispatch that replaces state.controls by a new object
ControlsReplaced(next, ref) ==
  Rendered(runSim(next).state, Append(pending, runSim(next).timer), ref)

\* after the mount: the scenarios effect found nothing stored, the
\* run-simulation effect ran once, or twice under StrictMode in development
AppInit ==
  /\ controls = initialState.controls
  /\ outputs = initialState.outputs
  /\ scenarios = initialState.scenarios
  /\ isCalculating = TRUE
  /\ pending \in {<<[controls |-> DEFAULT_CONTROLS, seq |-> 0]>>,
                  <<[controls |-> DEFAULT_CONTROLS, seq |-> 0],
                    [controls |-> DEFAULT_CONTROLS, seq |-> 0]>>}
  /\ controlsRef = << >>
  /\ changes = 0
  /\ outputsSeq = 0
  /\ call = NoCall
  /\ result = << >>

UpdateControls ==
  /\ changes < MaxChanges
  /\ \E partial \in PartialUpdates :
       ControlsReplaced(
         simulationReducer(state, [type |-> "SET_CONTROLS",
                                   payload |-> normalizeModalityPercentages(partial)]),
         << >>)

ResetToDefaults ==
  /\ changes < MaxChanges
  /\ ControlsReplaced(
       simulationReducer(state, [type |-> "SET_CONTROLS", payload |-> DEFAULT_CONTROLS]),
       << >>)

\* loading the scenario whose controls object is already state.controls
\* leaves the dependency of the effect unchanged
LoadScenario ==
  /\ changes < MaxChanges
  /\ \E scenario \in {generatePresets[i] : i \in DOMAIN generatePresets}
                       \cup {scenarios[i] : i \in DOMAIN scenarios} :
       IF controlsRef = <<scenario.obj>>
       THEN Rendered(simulationReducer(state, [type |-> "LOAD_SCENARIO", payload |-> scenario]),
                     pending, controlsRef)
       ELSE ControlsReplaced(
              simulationReducer(state, [type |-> "LOAD_SCENARIO", payload |-> scenario]),
              <<scenario.obj>>)

\* Date.now() does not go back: the id is not below a saved one
SaveScenario ==
  /\ changes < MaxChanges
  /\ outputs # << >>
  /\ \E now \in 1..MaxClock :
       /\ \A i \in DOMAIN scenarios : scenarios[i].id.n <= now
       /\ Rendered(
            simulationReducer(state,
              [type |-> "SAVE_SCENARIO",
               payload |-> [id |-> [kind |-> "scenario", n |-> now],
                            obj |-> Len(PRESET_CONFIGS) + changes,
                            controls |-> controls,
                            outputs |-> outputs[1],
                            isPreset |-> FALSE]]),
            pending, controlsRef)

DeleteScenario ==
  /\ changes < MaxChanges
  /\ \E i \in DOMAIN scenarios :
       Rendered(simulationReducer(state, [type |-> "DELETE_SCENARIO",
                                          payload |-> scenarios[i].id]),
                pending, controlsRef)

\* Faulty variant: the timer set last fires first.
dueTimerNewest(timers) == Len(timers)

\* timers of the same delay fire in the order they were set
dueTimer(timers) == 1

\* SET_OUTPUTS of the timer i has been reduced to next
TimerFired(i, next) ==
  /\ controls' = next.controls
  /\ outputs' = next.outputs
  /\ scenarios' = next.scenarios
  /\ isCalculating' = next.isCalculating
  /\ pending' = SubSeq(pending, 1, i - 1) \o SubSeq(pending, i + 1, Len(pending))
  /\ outputsSeq' = pending[i].seq
  /\ UNCHANGED <<call, result, controlsRef, changes>>

\* the timer fires: runSimulation on the controls of its closure, SET_OUTPUTS
TimerFires ==
  /\ pending # << >>
  /\ TimerFired(dueTimer(pending),
                simulationReducer(state,
                  [type |-> "SET_OUTPUTS",
                   payload |-> runSimulation(pending[dueTimer(pending)].controls)]))

AppNext ==
  \/ UpdateControls
  \/ ResetToDefaults
  \/ LoadScenario
  \/ SaveScenario
  \/ DeleteScenario
  \/ TimerFires

AppSpec == AppInit /\ [][AppNext]_vars

(***************************************************************************)
(* The provider on a visit that finds user scenarios in localStorage: the  *)
(* mount dispatches LOAD_SCENARIOS with what an earlier visit stored, and  *)
(* the user saves and deletes scenarios.                                   *)
(***************************************************************************)
\* the most user scenarios that the reducer keeps, and so that are stored
maxUserScenarios == 4

\* a stored scenario: JSON.parse makes new objects, the k-th with identity
\* past those of the presets and of the scenarios saved in this visit
StoredScenario(n, k) ==
  [id |-> [kind |-> "scenario", n |-> n],
   obj |-> Len(PRESET_CONFIGS) + MaxChanges + k,
   controls |-> advisorControls,
   outputs |-> runSimulation(advisorControls),
   isPreset |-> FALSE]

\* the lists that localStorage can hold: up to four user scenarios, saved in
\* the order of their times, two of them possibly in the same millisecond
StoredScenarioLists ==
  {[k \in DOMAIN ids |-> StoredScenario(ids[k], k)] :
     ids \in {list \in UNION {[1..len -> 1..MaxClock] : len \in 0..maxUserScenarios} :
                \A k \in 1..(Len(list) - 1) : list[k] <= list[k + 1]}}

ScenarioInit ==
  /\ controls = initialState.controls
  /\ outputs = initialState.outputs
  /\ scenarios \in StoredScenarioLists
  /\ isCalculating = TRUE
  /\ pending \in {<<[controls |-> DEFAULT_CONTROLS, seq |-> 0]>>,
                  <<[controls |-> DEFAULT_CONTROLS, seq |-> 0],
                    [controls |-> DEFAULT_CONTROLS, seq |-> 0]>>}
  /\ controlsRef = << >>
  /\ changes = 0
  /\ outputsSeq = 0
  /\ call = NoCall
  /\ result = << >>

ScenarioNext ==
  \/ SaveScenario
  \/ DeleteScenario
  \/ TimerFires

ScenarioSpec == ScenarioInit /\ [][ScenarioNext]_vars

Returned(fn) == call.fn = fn /\ result # << >>
ret == result[1]

Computed == outputs # << >>
out == outputs[1]

\* months, as a Big numerator over AvgDurDen
Months(m) == BigMulSmall(AvgDurDen, m)

(***************************************************************************)
(* Claims                                                                  *)
(***************************************************************************)
\* C1: the run on the default controls returns nFid between 85 and 95.
C1_DefaultNFidInRange ==
  (Computed /\ controls = DEFAULT_CONTROLS) => (85 <= out.nFid /\ out.nFid <= 95)

SumFids(pipeline) == SumTo(LAMBDA i : pipeline[i].fids, Len(pipeline))

\* C2: the fids of the six rows of pipelineByYear sum to nFid, also when the
\* average duration puts the first FID year after 2030.
C2_PipelineFidsSumToNFid ==
  Computed => /\ Len(out.pipelineByYear) = Len(SIMULATION_YEARS)
              /\ SumFids(out.pipelineByYear) = out.nFid

\* a run whose first FID year is after 2030, with all its FIDs in 2030
C2_LateFidsWitness ==
  /\ Computed
  /\ FirstFidYear(out.avgTimeToFid) > PARAMETERS.init.endYear
  /\ out.nFid > 0
  /\ out.pipelineByYear[Len(SIMULATION_YEARS)].fids = out.nFid

\* C4: the run on the default controls with the advisor enabled returns nFid
\* between 130 and 140.
C4_AdvisorNFidInRange ==
  (Computed /\ controls = advisorControls) => (130 <= out.nFid /\ out.nFid <= 140)

\* C5: the run on the fully optimized configuration returns nFid between 160
\* and 180.
C5_OptimizedNFidInRange ==
  (Computed /\ controls = optimizedControls) => (160 <= out.nFid /\ out.nFid <= 180)

\* C6: for a control set without advisor, the run on the same controls with
\* the advisor enabled has a strictly smaller avgTimeToFid and an nFid that is
\* not smaller.
C6_AdvisorFasterNoFewerFids ==
  (Computed /\ ~controls.advisor) =>
    LET withAdvisor == runSimulation([controls EXCEPT !.advisor = TRUE])
    IN  /\ BigLess(withAdvisor.avgTimeToFid, out.avgTimeToFid)
        /\ withAdvisor.nFid >= out.nFid

\* the default controls, where the advisor also adds FIDs
C6_DefaultWitness ==
  /\ Computed
  /\ controls = DEFAULT_CONTROLS
  /\ runSimulation(advisorControls).nFid > out.nFid

\* C7: avgTimeToFid of the fully optimized configuration is strictly less
\* than avgTimeToFid of the default controls.
C7_OptimizedFasterThanDefault ==
  (Computed /\ controls = optimizedControls) =>
    BigLess(out.avgTimeToFid, runSimulation(DEFAULT_CONTROLS).avgTimeToFid)

\* the optimized run, under 25 months where the default run takes over 47
C7_OptimizedWitness ==
  /\ Computed
  /\ controls = optimizedControls
  /\ BigLess(out.avgTimeToFid, Months(25))
  /\ BigLess(Months(47), runSimulation(DEFAULT_CONTROLS).avgTimeToFid)

\* the largest index in statusOrder among the years of a projection
WorstStatusIndex(fiscalProjection) ==
  CHOOSE m \in 1..Len(statusOrder) :
    /\ \E i \in 1..Len(fiscalProjection) :
         StatusIndex(fiscalProjection[i].fiscalStatus) = m
    /\ \A i \in 1..Len(fiscalProjection) :
         StatusIndex(fiscalProjection[i].fiscalStatus) <= m

\* C8: fiscalStatus is GREEN, YELLOW or RED and is the maximum, in the order
\* GREEN < YELLOW < RED, of the fiscalStatus of the six projected years.
C8_FiscalStatusIsWorstYear ==
  Computed => /\ out.fiscalStatus \in {"GREEN", "YELLOW", "RED"}
              /\ Len(out.fiscalByYear) = Len(SIMULATION_YEARS)
              /\ StatusIndex(out.fiscalStatus) = WorstStatusIndex(out.fiscalByYear)

\* a run whose years differ in status: the first GREEN, the worst RED
C8_MixedYearsWitness ==
  /\ Computed
  /\ out.fiscalByYear[1].fiscalStatus = "GREEN"
  /\ \E i \in 1..Len(out.fiscalByYear) : out.fiscalByYear[i].fiscalStatus = "RED"
  /\ out.fiscalStatus = "RED"

\* C9: for a control set with oilPrice 65, the run on the same controls with
\* oilPrice 50 has a fiscalStatus that is equal or worse, never better.
C9_LowOilNeverImproves ==
  (Computed /\ controls.oilPrice = 65) =>
    StatusIndex(runSimulation([controls EXCEPT !.oilPrice = 50]).fiscalStatus)
      >= StatusIndex(out.fiscalStatus)

\* a run at oilPrice 65 whose status is not yet the worst one
C9_RoomToWorsenWitness ==
  /\ Computed
  /\ controls.oilPrice = 65
  /\ out.nFid > 0
  /\ out.fiscalStatus # "RED"

\* C10: with the other fields at their defaults, the 90/8/2 split has a
\* strictly higher cofinancingTotal / investmentTotal than the 20/70/10 split.
C10_GovHeavyHigherCofinShare ==
  (Computed /\ controls = govLedHeavy) =>
    LET ppp == runSimulation(pppHeavy)
    IN  /\ out.investmentTotal > 0
        /\ ppp.investmentTotal > 0
        /\ out.cofinancingTotal * ppp.investmentTotal
             > ppp.cofinancingTotal * out.investmentTotal

\* the 90/8/2 run, with FIDs and a co-financing share below the whole
C10_GovHeavyWitness ==
  /\ Computed
  /\ controls = govLedHeavy
  /\ out.nFid > 0
  /\ 0 < out.cofinancingTotal
  /\ out.cofinancingTotal < out.investmentTotal

\* C11: investmentTotal is nFid * 76 USD millions and at most 20500.
C11_InvestmentIsFidsTimesCapex ==
  Computed => (out.investmentTotal = out.nFid * 760 /\ out.investmentTotal <= 205000)

\* a run with the largest portfolio and a split whose rounded counts exceed nFid
C11_LargePortfolioWitness ==
  /\ Computed
  /\ controls.nActive = 268
  /\ out.nFid > 100
  /\ out.investmentTotal > 10 * 76 * 100

\* C12: nFid, investmentTotal, cofinancingTotal and nDropped are not
\* negative and avgTimeToFid is positive.
C12_OutputsNonNegative ==
  Computed => /\ out.nFid >= 0
              /\ out.investmentTotal >= 0
              /\ out.cofinancingTotal >= 0
              /\ out.nDropped >= 0
              /\ out.avgTimeToFid # << >>

\* a run with FIDs, drops and co-financing
C12_PositiveOutputsWitness ==
  /\ Computed
  /\ out.nFid > 0
  /\ out.nDropped > 0
  /\ out.cofinancingTotal > 0

isBaseline(c) == ~c.advisor /\ c.pmuAdd = 0
isAdvisorOnly(c) == c.advisor /\ c.pmuAdd = 0
isOptimized(c) == c.advisor /\ c.pmuAdd >= 10 /\ c.nChampion >= 10

TimeOutside(avgTime, lo, hi) ==
  BigLess(avgTime, Months(lo)) \/ BigLess(Months(hi), avgTime)

\* nFid or avgTimeToFid outside the range of the archetype, or the
\* investment above the portfolio cap
OutsideExpected(c, o) ==
  \/ isBaseline(c) /\ (o.nFid < 85 \/ o.nFid > 95 \/ TimeOutside(o.avgTimeToFid, 28, 40))
  \/ isAdvisorOnly(c) /\ (o.nFid < 130 \/ o.nFid > 140)
  \/ isOptimized(c) /\ (o.nFid < 160 \/ o.nFid > 180 \/ TimeOutside(o.avgTimeToFid, 18, 28))
  \/ o.nFid * 76 > 20500

OutputFields ==
  {"nFid", "investmentTotal", "investmentPrivate", "cofinancingTotal", "fiscalStatus",
   "nDropped", "avgTimeToFid", "prepCost", "fiscalByYear", "pipelineByYear",
   "dropsByGate", "investmentByModality", "capacityStatus", "peakLoadRatio",
   "breachYear", "breachReason", "isWithinBounds", "boundsWarning"}

\* C16: for a control set of an archetype, isWithinBounds is false and
\* boundsWarning non-null exactly when nFid or avgTimeToFid is outside the
\* archetype's range or the investment exceeds the cap; the result is
\* complete either way.
C16_BoundsWarningIffOutside ==
  (Computed /\ (isBaseline(controls) \/ isAdvisorOnly(controls) \/ isOptimized(controls)))
    => /\ out.isWithinBounds = ~OutsideExpected(controls, out)
       /\ (out.boundsWarning # << >>) = OutsideExpected(controls, out)
       /\ DOMAIN out = OutputFields

\* an optimized run inside its ranges
C16_WithinBoundsWitness ==
  /\ Computed
  /\ isOptimized(controls)
  /\ out.isWithinBounds
  /\ out.boundsWarning = << >>

\* C20: every row of pipelineByYear has privateCapital >= 0.
C20_PrivateCapitalNonNegative ==
  Computed => \A i \in 1..Len(out.pipelineByYear) : out.pipelineByYear[i].privateCapital >= 0

\* C15: calculateGatePassRate returns a rate between the floor and the
\* ceiling of the gate (rates in units of 1/RateDen, limits in hundredths).
C15_GatePassRateWithinLimits ==
  Returned("calculateGatePassRate")
    => /\ MAX_PMU_ADD * PARAMETERS.gates[call.gate].floor <= ret
       /\ ret <= MAX_PMU_ADD * PARAMETERS.gates[call.gate].ceiling

\* gate 4 of a championed PPP project with advisor and full PMU: the sum
\* 0.75 + 0.05 + 0.10 + 0.08 + 0.10 is above the ceiling 0.95
C15_CeilingAppliedWitness ==
  /\ Returned("calculateGatePassRate")
  /\ call.gate = 4
  /\ call.context.hasChampion
  /\ call.context.modality = "PPP"
  /\ call.context.controls.advisor
  /\ call.context.controls.pmuAdd = MAX_PMU_ADD
  /\ call.context.controls.politicalRisk = "LOW"
  /\ call.context.loadRatio.num = 5
  /\ ret = MAX_PMU_ADD * PARAMETERS.gates[4].ceiling

\* C17: for nActive >= 0 and 0 <= nChampion <= nActive, dropped and inFlight
\* of every row of pipelineByYear are numbers.
C17_PipelineRowsAreNumbers ==
  Returned("runSimulation")
    => \A i \in 1..Len(ret.pipelineByYear) :
         /\ ret.pipelineByYear[i].dropped # NaN
         /\ ret.pipelineByYear[i].inFlight # NaN

\* C18: distributeFidsAcrossYears gives 0 FIDs to every year before
\* ceil(2025 + avgDurationMonths / 12): the years y with
\* (y - 2025) * 12 months < avgDurationMonths.
C18_NoFidsBeforeFirstFidYear ==
  Returned("distributeFidsAcrossYears")
    => \A y \in YearSet :
         ((y - 2025) * 1200 < call.hundredths) => ret[y] = 0

\* C19: distributeFidsByModality returns three counts that are not negative
\* and sum to totalFids.
C19_ModalityCountsSumToFids ==
  Returned("distributeFidsByModality")
    => /\ \A m \in Modalities : ret[m] >= 0
       /\ ret["GOV_LED"] + ret["PPP"] + ret["FULLY_PRIVATE"] = call.totalFids

\* C13: once every pending recomputation has dispatched its result, outputs
\* is runSimulation of the latest controls; and no pending recomputation is
\* older than the one whose result is in outputs, so that an older result
\* never overwrites a newer one.
C13_OutputsOfLatestControls ==
  /\ pending = << >> => outputs = <<runSimulation(controls)>>
  /\ \A i \in DOMAIN pending : pending[i].seq >= outputsSeq

\* two changes, the second to other controls than the defaults, and every
\* recomputation done
C13_AllDispatchedWitness ==
  /\ changes = MaxChanges
  /\ pending = << >>
  /\ outputsSeq = MaxChanges
  /\ controls # DEFAULT_CONTROLS
  /\ outputs = <<runSimulation(controls)>>

\* C14: the stored controls have pctGovLed + pctPPP + pctPrivate = 100 after
\* any updateControls, resetToDefaults and loadScenario.
C14_PercentagesSumTo100 ==
  controls.pctGovLed + controls.pctPPP + controls.pctPrivate = 100

SumCofinancingDemand(fiscalProjection) ==
  SumTo(LAMBDA i : fiscalProjection[i].cofinancingDemand, Len(fiscalProjection))

SumGovCofinancing(pipeline) ==
  SumTo(LAMBDA i : pipeline[i].govCofinancing, Len(pipeline))

\* C21: the cofinancingDemand of the six years of fiscalByYear, and the
\* govCofinancing of the six rows of pipelineByYear, sum to cofinancingTotal.
C21_YearlyCofinancingSumsToTotal ==
  Computed => /\ SumCofinancingDemand(out.fiscalByYear) = out.cofinancingTotal
              /\ SumGovCofinancing(out.pipelineByYear) = out.cofinancingTotal

\* C22: nFid + nDropped <= nActive.
C22_FidsAndDropsWithinActive ==
  Computed => out.nFid + out.nDropped <= controls.nActive

\* the years of a projection that are RED
RedYears(fiscalProjection) ==
  {fiscalProjection[i].year : i \in {j \in 1..Len(fiscalProjection) :
                                       fiscalProjection[j].fiscalStatus = "RED"}}

\* C23: breachYear is the earliest RED year of fiscalByYear; breachYear and
\* breachReason are null exactly when fiscalStatus is not RED; a reason names
\* co-financing above the fiscal space, the debt ceiling, or both.
C23_BreachYearIsFirstRedYear ==
  Computed =>
    /\ (out.breachYear = {}) = (out.fiscalStatus # "RED")
    /\ (out.breachReason = {}) = (out.fiscalStatus # "RED")
    /\ \A y \in out.breachYear :
         /\ y \in RedYears(out.fiscalByYear)
         /\ \A r \in RedYears(out.fiscalByYear) : y <= r
    /\ out.breachReason \subseteq {"co-financing exceeds fiscal space",
                                   "debt ceiling breached"}

\* a run whose first RED year comes after a year that is not RED
C23_LaterBreachWitness ==
  /\ Computed
  /\ out.fiscalStatus = "RED"
  /\ out.fiscalByYear[1].fiscalStatus # "RED"
  /\ \E y \in out.breachYear : y > PARAMETERS.init.startYear
  /\ Cardinality(RedYears(out.fiscalByYear)) > 1
  /\ out.breachReason = {"co-financing exceeds fiscal space"}

\* C30: debtRatio is 0.28 in 2025 and does not increase from a year to the
\* next; the debt status of every year is GREEN, the fiscalStatus of every
\* year is its flow status, and breachReason has no 'debt ceiling breached'.
C30_DebtRatioNeverRises ==
  Computed =>
    /\ BigMulSmall(out.fiscalByYear[1].debtRatio.num, 100)
         = BigMulSmall(out.fiscalByYear[1].debtRatio.den, 28)
    /\ \A i \in 1..(Len(out.fiscalByYear) - 1) :
         /\ out.fiscalByYear[i + 1].debtRatio.num = out.fiscalByYear[i].debtRatio.num
         /\ BigLeq(out.fiscalByYear[i].debtRatio.den, out.fiscalByYear[i + 1].debtRatio.den)
    /\ \A i \in 1..Len(out.fiscalByYear) :
         /\ getDebtStatus(out.fiscalByYear[i].debtRatio) = "GREEN"
         /\ out.fiscalByYear[i].fiscalStatus
              = getFiscalStatus(out.fiscalByYear[i].cofinancingDemand,
                                out.fiscalByYear[i].fiscalSpace)
    /\ "debt ceiling breached" \notin out.breachReason

\* a RED run, whose reason is the co-financing alone, with a debt ratio that
\* has fallen below 0.28 by 2030
C30_RedFlowWitness ==
  /\ Computed
  /\ out.fiscalStatus = "RED"
  /\ out.breachReason = {"co-financing exceeds fiscal space"}
  /\ ~DebtRatioAtLeast(out.fiscalByYear[Len(SIMULATION_YEARS)].debtRatio,
                       PARAMETERS.fiscal.debtGdp2025)

\* the numbers of championed projects compared
ChampionLevels == {0, 7, 20}

\* C24: runs whose controls differ only in nChampion have the same
\* avgTimeToFid, nDropped, dropsByGate, peakLoadRatio and capacityStatus.
C24_ChampionsLeaveCapacityAndDrops ==
  Computed =>
    \A champions \in ChampionLevels \ {controls.nChampion} :
      LET other == runSimulation([controls EXCEPT !.nChampion = champions])
      IN  /\ other.avgTimeToFid = out.avgTimeToFid
          /\ other.nDropped = out.nDropped
          /\ other.dropsByGate = out.dropsByGate
          /\ other.peakLoadRatio = out.peakLoadRatio
          /\ other.capacityStatus = out.capacityStatus

\* a run with 20 championed projects, drops, and more FIDs than the run on
\* the same controls without champions
C24_ChampionsChangeFidsWitness ==
  /\ Computed
  /\ controls.nChampion = 20
  /\ out.nDropped > 0
  /\ out.nFid > runSimulation([controls EXCEPT !.nChampion = 0]).nFid

\* the sum of the five base durations, in tenths of a month (33 months)
BaselineTotalDuration ==
  SumTo(LAMBDA i : PARAMETERS.stages[ACTIVE_STAGES[i]].baseDuration, Len(ACTIVE_STAGES))

\* round(nActive * baseDuration[stage] / 33)
BaselineShareEstimate(nActive) ==
  [stage \in 2..6 |->
     RoundDiv(nActive * PARAMETERS.stages[stage].baseDuration, BaselineTotalDuration)]

\* C25: the estimate of the projects in a stage is nActive times the share
\* of the stage in the total baseline duration of 33 months, rounded, and
\* peakLoadRatio is the largest load ratio of these estimates.
C25_StageEstimateIsBaselineShare ==
  Computed =>
    LET peak == calculatePeakLoadRatio(BaselineShareEstimate(controls.nActive),
                                       calculateTotalCapacity(controls))
    IN  /\ BaselineTotalDuration = 330
        /\ estimateProjectsByStage(controls.nActive, out.avgTimeToFid)
             = BaselineShareEstimate(controls.nActive)
        /\ out.peakLoadRatio.num * peak.den = peak.num * out.peakLoadRatio.den

\* C26: capacityStatus is the tier (GREEN up to 0.8, YELLOW up to 1.0, RED
\* above) of the load ratio min(nActive / totalCapacity, 1.2) that the same
\* run used for the duration multiplier and the pass-rate penalty.
C26_CapacityStatusIsTierOfLoadUsed ==
  Computed => out.capacityStatus = getCapacityStatus(EstimatedLoadRatio(controls))

\* the least and the greatest revenue: the ends of the ranges of the oil
\* price and of the donor rate
RevenueCorners ==
  {[oilPrice |-> 50, donorRate |-> 50], [oilPrice |-> 75, donorRate |-> 90]}

\* the fiscalSpace and the fiscalStatus of the years of a projection
SpaceAndStatus(fiscalProjection) ==
  [i \in 1..Len(fiscalProjection) |->
     LET data == fiscalProjection[i]
     IN  <<data.fiscalSpace, data.fiscalStatus>>]

\* C27: runs that differ only in oilPrice and donorRate have the same
\* fiscalSpace and the same fiscalStatus in every year, the contingent
\* limit being the smallest of the four limits.
C27_FiscalSpaceIgnoresOilAndDonors ==
  Computed =>
    /\ \A i \in 1..Len(out.fiscalByYear) :
         out.fiscalByYear[i].fiscalSpace = ContingentLimitByYear[out.fiscalByYear[i].year]
    /\ \A corner \in RevenueCorners :
         SpaceAndStatus(runSimulation([controls EXCEPT !.oilPrice = corner.oilPrice,
                                                       !.donorRate = corner.donorRate]).fiscalByYear)
           = SpaceAndStatus(out.fiscalByYear)

\* a run at the low oil price and the low donor rate, with less revenue than
\* the run at the high ones and a year that is not GREEN
C27_LowRevenueWitness ==
  /\ Computed
  /\ controls.oilPrice = 50
  /\ controls.donorRate = 50
  /\ out.fiscalStatus # "GREEN"
  /\ BigLess(out.fiscalByYear[1].revenue,
             runSimulation([controls EXCEPT !.oilPrice = 75, !.donorRate = 90]).fiscalByYear[1].revenue)

\* the scenarios of a list whose id is not id, in their order
OthersThan(list, id) == SelectSeq(list, LAMBDA sc : sc.id # id)

\* a scenario that saveScenario can dispatch
SavePayload(now) ==
  [id |-> [kind |-> "scenario", n |-> now], obj |-> Len(PRESET_CONFIGS) + changes,
   controls |-> controls, outputs |-> outputs, isPreset |-> FALSE]

\* C28: scenarios holds at most 4 user scenarios; SAVE_SCENARIO with 4 of
\* them present returns the state as it is; DELETE_SCENARIO removes the
\* scenarios with the id given, no other, and changes nothing else.
C28_AtMostFourUserScenarios ==
  /\ Len(userScenarios(scenarios)) <= 4
  /\ Len(userScenarios(scenarios)) = 4 =>
       \A now \in 1..MaxClock :
         simulationReducer(state, [type |-> "SAVE_SCENARIO", payload |-> SavePayload(now)])
           = state
  /\ \A i \in DOMAIN scenarios :
       simulationReducer(state, [type |-> "DELETE_SCENARIO", payload |-> scenarios[i].id])
         = [state EXCEPT !.scenarios = OthersThan(scenarios, scenarios[i].id)]

\* saveScenario was called with four user scenarios present, none of which
\* is the one it made
C28_SaveRefusedWitness ==
  /\ changes = 1
  /\ outputs # << >>
  /\ Len(userScenarios(scenarios)) = 4
  /\ \A i \in DOMAIN scenarios : scenarios[i].obj # Len(PRESET_CONFIGS)

====
